---- MODULE Spec2Model ----
(***************************************************************************)
(* Model of the caching and on-demand materialization layer of ipo_api.py: *)
(* the corpus on disk (per-year current_meta.json, per-record JSON files), *)
(* the in-process ipo_cache, the Redis tier behind get_cached_data and     *)
(* set_cached_data, the request handlers and clear_and_preload_cache.      *)
(***************************************************************************)
EXTENDS Integers, Sequences, FiniteSets, TLC

(***************************************************************************)
(* JSON values.                                                            *)
(*                                                                         *)
(* A Tree is a JSON text as a value: what a file holds, what jsonify and   *)
(* json.dumps produce.  Python objects are not trees: dicts and lists are  *)
(* mutable and shared by reference, so a loaded document is an Img, a root *)
(* value plus a heap of dict/list objects whose slots hold scalars or      *)
(* references to other objects of the same heap.                           *)
(***************************************************************************)
EmptyKV == [k \in {} |-> 0]

TNull == [t |-> "null", v |-> "", a |-> 0, kv |-> EmptyKV, s |-> <<>>]
TStr(x) == [t |-> "str", v |-> x, a |-> 0, kv |-> EmptyKV, s |-> <<>>]
TNum(n) == [t |-> "num", v |-> "", a |-> n, kv |-> EmptyKV, s |-> <<>>]
TDict(f) == [t |-> "dict", v |-> "", a |-> 0, kv |-> f, s |-> <<>>]
TList(q) == [t |-> "list", v |-> "", a |-> 0, kv |-> EmptyKV, s |-> q]

VNull == [t |-> "null", v |-> "", a |-> 0]
VStr(x) == [t |-> "str", v |-> x, a |-> 0]
VNum(n) == [t |-> "num", v |-> "", a |-> n]
VRef(n) == [t |-> "ref", v |-> "", a |-> n]

ODict(f) == [t |-> "dict", kv |-> f, s |-> <<>>]
OList(q) == [t |-> "list", kv |-> EmptyKV, s |-> q]

IsRef(x) == x.t = "ref"

\* json.load / json.loads / pickle.loads of a tree: every dict and list of
\* the text becomes a fresh object; objects are numbered in the order the
\* decoder creates them (depth first, a container before its members).
RECURSIVE Alloc(_, _), AllocKeys(_, _, _, _), AllocSeq(_, _, _, _)
Alloc(h, tr) ==
    IF tr.t = "dict"
    THEN LET addr == Len(h) + 1
         IN [val |-> VRef(addr),
             heap |-> AllocKeys(Append(h, ODict(EmptyKV)), addr, tr.kv, DOMAIN tr.kv)]
    ELSE IF tr.t = "list"
    THEN LET addr == Len(h) + 1
         IN [val |-> VRef(addr),
             heap |-> AllocSeq(Append(h, OList(<<>>)), addr, tr.s, 1)]
    ELSE [val |-> [t |-> tr.t, v |-> tr.v, a |-> tr.a], heap |-> h]

AllocKeys(h, addr, kv, ks) ==
    IF ks = {} THEN h
    ELSE LET k == CHOOSE x \in ks : TRUE
             r == Alloc(h, kv[k])
             h2 == [r.heap EXCEPT ![addr].kv = (k :> r.val) @@ @]
         IN AllocKeys(h2, addr, kv, ks \ {k})

AllocSeq(h, addr, q, i) ==
    IF i > Len(q) THEN h
    ELSE LET r == Alloc(h, q[i])
             h2 == [r.heap EXCEPT ![addr].s = Append(@, r.val)]
         IN AllocSeq(h2, addr, q, i + 1)

Load(tr) ==
    LET r == Alloc(<<>>, tr) IN [root |-> r.val, heap |-> r.heap]

\* The objects reachable from a value, in depth-first order.
RECURSIVE Visit(_, _, _), VisitKeys(_, _, _, _), VisitSeq(_, _, _, _)
Visit(h, x, ord) ==
    IF ~IsRef(x) \/ (\E i \in 1..Len(ord) : ord[i] = x.a) THEN ord
    ELSE LET o == h[x.a]
             ord1 == Append(ord, x.a)
         IN IF o.t = "dict" THEN VisitKeys(h, o.kv, DOMAIN o.kv, ord1)
            ELSE VisitSeq(h, o.s, 1, ord1)

VisitKeys(h, kv, ks, ord) ==
    IF ks = {} THEN ord
    ELSE LET k == CHOOSE x \in ks : TRUE
         IN VisitKeys(h, kv, ks \ {k}, Visit(h, kv[k], ord))

VisitSeq(h, q, i, ord) ==
    IF i > Len(q) THEN ord
    ELSE VisitSeq(h, q, i + 1, Visit(h, q[i], ord))

\* An object graph up to the identity of its objects: unreachable objects
\* dropped, the others renumbered in depth-first order.  Two graphs are the
\* same Python value (same shape, same sharing) iff their normal forms are
\* equal.
Canon(img) ==
    LET ord == Visit(img.heap, img.root, <<>>)
        new(a) == CHOOSE i \in 1..Len(ord) : ord[i] = a
        ren(x) == IF IsRef(x) THEN VRef(new(x.a)) ELSE x
        obj(o) == [t |-> o.t,
                   kv |-> [k \in DOMAIN o.kv |-> ren(o.kv[k])],
                   s |-> [i \in 1..Len(o.s) |-> ren(o.s[i])]]
    IN [root |-> ren(img.root),
        heap |-> [i \in 1..Len(ord) |-> obj(img.heap[ord[i]])]]

\* A reference cycle below x (json.dumps and jsonify raise ValueError,
\* "Circular reference detected", on it).
RECURSIVE Cyclic(_, _, _)
Cyclic(h, x, stack) ==
    /\ IsRef(x)
    /\ \/ x.a \in stack
       \/ LET o == h[x.a]
          IN \/ \E k \in DOMAIN o.kv : Cyclic(h, o.kv[k], stack \cup {x.a})
             \/ \E i \in 1..Len(o.s) : Cyclic(h, o.s[i], stack \cup {x.a})

\* json.dumps / jsonify of an acyclic value: the text, sharing expanded.
RECURSIVE ToTree(_, _)
ToTree(h, x) ==
    IF ~IsRef(x) THEN [t |-> x.t, v |-> x.v, a |-> x.a, kv |-> EmptyKV, s |-> <<>>]
    ELSE LET o == h[x.a]
         IN IF o.t = "dict"
            THEN TDict([k \in DOMAIN o.kv |-> ToTree(h, o.kv[k])])
            ELSE TList([i \in 1..Len(o.s) |-> ToTree(h, o.s[i])])

\* Python truth value of a tree: None, "", 0, {} and [] are false.
Truthy(tr) ==
    CASE tr.t = "null" -> FALSE
      [] tr.t = "str" -> tr.v # ""
      [] tr.t = "num" -> tr.a # 0
      [] tr.t = "dict" -> DOMAIN tr.kv # {}
      [] tr.t = "list" -> tr.s # <<>>
      [] tr.t = "odict" -> tr.s # <<>>
      [] OTHER -> TRUE

(***************************************************************************)
(* The corpus on disk and the bounds of the model.                         *)
(***************************************************************************)
\* Modification times are readings of one clock; MaxMtime is its last value.
MaxMtime == 3
\* Calendar days the model runs through (date.today()).
MaxDay == 3

Years == {2024, 2025}
Paths == {"2025/json/Acme.json", "2025/json/Beta.json"}
PathA == "2025/json/Acme.json"
PathB == "2025/json/Beta.json"

\* str(year), and int(name) for the names os.listdir can return.
YearStr(y) == IF y = 2024 THEN "2024" ELSE "2025"
OtherDirNames == {"logs"}
ParseInt(name) ==
    CASE name = "2024" -> [ok |-> TRUE, n |-> 2024]
      [] name = "2025" -> [ok |-> TRUE, n |-> 2025]
      [] OTHER -> [ok |-> FALSE, n |-> 0]

\* Index entries as meta_data.py and parser.py write them: a name always,
\* a json_path once parser.py has processed the entry.
Entry(name, has, path) == [name |-> name, has_json_path |-> has, json_path |-> path]

\* Names and slugs are strings; NameChars spells a name for slugify and
\* StrOf reads the characters slugify returns back as a string.
NameChars(name) ==
    CASE name = "Acme" -> <<"A", "c", "m", "e">>
      [] name = "acme!" -> <<"a", "c", "m", "e", "!">>
      [] name = "B -b" -> <<"B", " ", "-", "b">>
      [] name = "Beta!" -> <<"B", "e", "t", "a", "!">>
      [] OTHER -> <<>>
StrOf(chars) ==
    CASE chars = <<"a", "c", "m", "e">> -> "acme"
      [] chars = <<"b", "-", "b">> -> "b-b"
      [] chars = <<"b", "e", "t", "a">> -> "beta"
      [] chars = <<"a", "c", "m", "e", "!">> -> "acme!"
      [] chars = <<"A", "c", "m", "e">> -> "Acme"
      [] chars = <<"b", " ", "-", "b">> -> "b -b"
      [] OTHER -> ""

IndexBoth == <<Entry("Acme", TRUE, PathA), Entry("B -b", TRUE, PathB)>>
IndexOne == <<Entry("Acme", TRUE, PathA)>>
IndexOld == <<Entry("acme!", TRUE, PathB), Entry("B -b", FALSE, "")>>
IndexTexts == {IndexBoth, IndexOne, IndexOld}

\* Date strings of the corpus, and what the two parsing steps make of them.
\* Days are numbered within January 2030.
DateJan2 == "Jan 2, 2030"
DateRange23 == "Jan 2, 2030toJan 3, 2030"
DateTBA == "TBA"

Pair(label, value) == TList(<<TStr(label), TStr(value)>>)

DocOpen2 ==
    TDict([ipo_details |-> TList(<<Pair("IPO Date", DateJan2)>>),
           about_company |-> TDict([description |-> TStr("acme makes anvils")])])
DocRange ==
    TDict([ipo_details |-> TList(<<Pair("IPO Date", DateRange23),
                                   Pair("Listing Date", DateJan2)>>),
           listing_gain_percent |-> TNull])
DocNoDetails ==
    TDict([listing_gain_percent |-> TNull])

RecordTexts == {DocOpen2, DocRange, DocNoDetails}

(***************************************************************************)
(* slugify, parse_date_robustly, get_ipo_status.                           *)
(***************************************************************************)
\* Strings that the code takes apart are sequences of characters.
Lower(ch) == CASE ch = "A" -> "a" [] ch = "B" -> "b" [] OTHER -> ch
IsWordChar(ch) == ch \in {"A", "B", "a", "b", "c", "e", "m", "t", "_", "0", "1"}
IsSepChar(ch) == ch \in {" ", "-"}

RECURSIVE StripLeft(_)
StripLeft(q) == IF q # <<>> /\ q[1] = " " THEN StripLeft(Tail(q)) ELSE q
RECURSIVE StripRight(_)
StripRight(q) ==
    IF q # <<>> /\ q[Len(q)] = " " THEN StripRight(SubSeq(q, 1, Len(q) - 1)) ELSE q
Strip(q) == StripRight(StripLeft(q))

\* re.sub(r'[-\s]+', '-', value): each run of hyphens and spaces becomes one hyphen.
RECURSIVE CollapseSeps(_, _, _)
CollapseSeps(q, i, out) ==
    IF i > Len(q) THEN out
    ELSE IF IsSepChar(q[i])
         THEN CollapseSeps(q, i + 1,
                  IF i > 1 /\ IsSepChar(q[i - 1]) THEN out ELSE Append(out, "-"))
         ELSE CollapseSeps(q, i + 1, Append(out, q[i]))

slugify(value) ==
    LET kept == SelectSeq(value, LAMBDA ch : IsWordChar(ch) \/ IsSepChar(ch))
        stripped == Strip(kept)
        lowered == [i \in 1..Len(stripped) |-> Lower(stripped[i])]
    IN CollapseSeps(lowered, 1, <<>>)

\* datetime.strptime over the three formats, on the date strings of the corpus.
parse_date_robustly(ds) ==
    CASE ds = "Jan 2, 2030" -> [ok |-> TRUE, day |-> 2]
      [] ds = "Jan 3, 2030" -> [ok |-> TRUE, day |-> 3]
      [] OTHER -> [ok |-> FALSE, day |-> 0]

\* re.match(r'(\w+ \d+, \d{4})to(\w+ \d+, \d{4})', s) on the same strings.
RangeMatch(ds) ==
    IF ds = DateRange23
    THEN [ok |-> TRUE, open |-> "Jan 2, 2030", close |-> "Jan 3, 2030"]
    ELSE [ok |-> FALSE, open |-> "", close |-> ""]

NoScan == [raised |-> FALSE, ipo |-> VNull, listing |-> VNull]

\* The loop of get_ipo_status over ipo_details.  detail[0] and detail[1] on a
\* short list raise IndexError, on a dict KeyError, on None or a number
\* TypeError; on a string detail[0] is one character and matches no label.
RECURSIVE ScanDetails(_, _, _, _)
ScanDetails(h, q, i, acc) ==
    IF i > Len(q) \/ acc.raised THEN acc
    ELSE LET d == q[i]
             bad == [acc EXCEPT !.raised = TRUE]
         IN IF IsRef(d) /\ h[d.a].t = "list"
            THEN LET e == h[d.a].s
                 IN IF Len(e) = 0 THEN bad
                    ELSE IF e[1] = VStr("IPO Date")
                    THEN IF Len(e) < 2 THEN bad
                         ELSE ScanDetails(h, q, i + 1, [acc EXCEPT !.ipo = e[2]])
                    ELSE IF e[1] = VStr("Listing Date")
                    THEN IF Len(e) < 2 THEN bad
                         ELSE ScanDetails(h, q, i + 1, [acc EXCEPT !.listing = e[2]])
                    ELSE ScanDetails(h, q, i + 1, acc)
            ELSE IF d.t = "str" /\ d.v # "" THEN ScanDetails(h, q, i + 1, acc)
            ELSE bad

ValTruthy(h, x) ==
    CASE x.t = "null" -> FALSE
      [] x.t = "str" -> x.v # ""
      [] x.t = "num" -> x.a # 0
      [] OTHER -> IF h[x.a].t = "dict" THEN DOMAIN h[x.a].kv # {} ELSE h[x.a].s # <<>>

StatusOf(status) == [raised |-> FALSE, status |-> status]
StatusRaised == [raised |-> TRUE, status |-> ""]

\* The date comparisons of get_ipo_status.
CompareDates(day, open, close) ==
    IF day < open THEN "Upcoming"
    ELSE IF open <= day /\ day <= close THEN "Open"
    ELSE "Closed"

\* The tail of get_ipo_status: today against the parsed dates.
StatusOnDates(h, scan, day, open, close) ==
    IF ~open.ok \/ ~close.ok THEN StatusOf("Unknown")
    ELSE IF CompareDates(day, open.day, close.day) = "Closed"
            /\ ValTruthy(h, scan.listing) /\ scan.listing.t # "str"
    THEN StatusRaised
    ELSE StatusOf(CompareDates(day, open.day, close.day))

\* The IPO Date string taken apart: m is the match of the range pattern.
StatusOfRange(h, scan, day, m) ==
    StatusOnDates(h, scan, day,
                  parse_date_robustly(IF m.ok THEN m.open ELSE scan.ipo.v),
                  parse_date_robustly(IF m.ok THEN m.close ELSE scan.ipo.v))

\* get_ipo_status after its loop over ipo_details.
StatusOfScan(h, scan, day) ==
    IF scan.raised THEN StatusRaised
    ELSE IF ~ValTruthy(h, scan.ipo) THEN StatusOf("Unknown")
    ELSE IF scan.ipo.t # "str" THEN StatusRaised
    ELSE StatusOfRange(h, scan, day, RangeMatch(scan.ipo.v))

\* get_ipo_status(ipo_details) on day `day`; ipo_details is the value x of heap h.
get_ipo_status(h, x, day) ==
    IF ~IsRef(x) /\ x.t # "str" THEN StatusRaised
    ELSE StatusOfScan(h, IF ~IsRef(x) \/ h[x.a].t = "dict" THEN NoScan
                         ELSE ScanDetails(h, h[x.a].s, 1, NoScan),
                      day)

(***************************************************************************)
(* ipo_cache: load_year_data and get_ipo_detail_data.                      *)
(***************************************************************************)
NoLines == [p \in {} |-> 0]

IsStale_never(stored, current) == FALSE
\* The staleness test of both caches: `cached mtime < current mtime`.
IsStale(stored, current) == stored < current

AddSlug(e) == [name |-> e.name, slug |-> StrOf(slugify(NameChars(e.name))),
               has_json_path |-> e.has_json_path, json_path |-> e.json_path]

load_year_data_keep(c, mf, y) ==
    LET f == mf[y]
    IN IF f.st # "file" THEN [ok |-> FALSE, cache |-> c, read |-> FALSE]
       ELSE IF y \notin DOMAIN c \/ IsStale(c[y].meta_mtime, f.mtime)
       THEN IF ~f.ok THEN [ok |-> FALSE, cache |-> c, read |-> TRUE]
            ELSE [ok |-> TRUE,
                  cache |-> (y :> [meta_mtime |-> f.mtime,
                                   meta_data |-> [i \in 1..Len(f.entries) |-> AddSlug(f.entries[i])],
                                   ipo_data |-> IF y \in DOMAIN c THEN c[y].ipo_data
                                                ELSE NoLines])
                            @@ c,
                  read |-> TRUE]
       ELSE [ok |-> TRUE, cache |-> c, read |-> FALSE]

\* load_year_data(year) on cache c and index files mf.  `read` tells whether
\* the index file was opened.
load_year_data(c, mf, y) ==
    LET f == mf[y]
    IN IF f.st # "file" THEN [ok |-> FALSE, cache |-> c, read |-> FALSE]
       ELSE IF y \notin DOMAIN c \/ IsStale(c[y].meta_mtime, f.mtime)
       THEN IF ~f.ok THEN [ok |-> FALSE, cache |-> c, read |-> TRUE]
            ELSE [ok |-> TRUE,
                  cache |-> (y :> [meta_mtime |-> f.mtime,
                                   meta_data |-> [i \in 1..Len(f.entries) |-> AddSlug(f.entries[i])],
                                   ipo_data |-> NoLines])
                            @@ c,
                  read |-> TRUE]
       ELSE [ok |-> TRUE, cache |-> c, read |-> FALSE]

DetailOfYear_forget(ly, f, y, p) ==
    IF ~ly.ok THEN [none |-> TRUE, cache |-> ly.cache, read |-> FALSE]
    ELSE IF f.st # "file" THEN [none |-> TRUE, cache |-> ly.cache, read |-> FALSE]
    ELSE IF p \notin DOMAIN ly.cache[y].ipo_data
            \/ ly.cache[y].ipo_data[p].mtime < f.mtime
    THEN IF ~f.ok
         THEN [none |-> TRUE,
               cache |-> [ly.cache EXCEPT ![y].ipo_data = [q \in DOMAIN @ \ {p} |-> @[q]]],
               read |-> TRUE]
         ELSE [none |-> FALSE,
               cache |-> [ly.cache EXCEPT ![y].ipo_data =
                             (p :> [mtime |-> f.mtime, data |-> Load(f.tree)]) @@ @],
               read |-> TRUE]
    ELSE [none |-> FALSE, cache |-> ly.cache, read |-> FALSE]
\* get_ipo_detail_data from `if not os.path.exists(full_json_path)` on; ly is
\* what the year check left (the cache, and whether the year is in it), f
\* the record file.
DetailOfYear(ly, f, y, p) ==
    IF ~ly.ok THEN [none |-> TRUE, cache |-> ly.cache, read |-> FALSE]
    ELSE IF f.st # "file" THEN [none |-> TRUE, cache |-> ly.cache, read |-> FALSE]
    ELSE IF p \notin DOMAIN ly.cache[y].ipo_data
            \/ IsStale(ly.cache[y].ipo_data[p].mtime, f.mtime)
    THEN IF ~f.ok THEN [none |-> TRUE, cache |-> ly.cache, read |-> TRUE]
         ELSE [none |-> FALSE,
               cache |-> [ly.cache EXCEPT ![y].ipo_data =
                             (p :> [mtime |-> f.mtime, data |-> Load(f.tree)]) @@ @],
               read |-> TRUE]
    ELSE [none |-> FALSE, cache |-> ly.cache, read |-> FALSE]

\* get_ipo_detail_data(year, ipo_json_path) on cache c, index files mf and
\* record files rf.  The outcome is None (none = TRUE) or the document object
\* of the cache line c[y].ipo_data[p], which the caller shares with the cache.
get_ipo_detail_data(c, mf, rf, y, p) ==
    DetailOfYear(IF y \in DOMAIN c THEN [ok |-> TRUE, cache |-> c, read |-> FALSE]
                 ELSE load_year_data(c, mf, y),
                 rf[p], y, p)

(***************************************************************************)
(* The Redis tier: get_cached_data, set_cached_data, and the Flask-Caching *)
(* object `cache`, configured as a RedisCache on the same server with      *)
(* key prefix 'ipo_api:'.                                                  *)
(*                                                                         *)
(* The server's keyspace maps keys to [img, ttl].  A key is a sequence of  *)
(* tokens: <<k>> for a key redis_client writes under its own name,         *)
(* <<"ipo_api:", k>> for a key Flask-Caching writes.  A call on a server   *)
(* that is down raises ConnectionError.                                    *)
(***************************************************************************)
CACHE_KEY_PREFIX == "ipo_api:"
CACHE_DEFAULT_TIMEOUT == 3600
CACHE_TIMEOUTS ==
    [meta_data |-> 3600, ipo_details |-> 1800, search_results |-> 900,
     overview |-> 600, status_data |-> 300]

RawKey(k) == k
PrefixedKey(k) == <<CACHE_KEY_PREFIX>> \o k
HasPrefix(key) == key # <<>> /\ key[1] = CACHE_KEY_PREFIX

\* ":".join(parts), each part a sequence of tokens.
RECURSIVE JoinColon(_)
JoinColon(parts) ==
    IF parts = <<>> THEN <<>>
    ELSE IF Len(parts) = 1 THEN parts[1]
    ELSE parts[1] \o <<":">> \o JoinColon(Tail(parts))

\* sorted(kwargs.items()): kwargs is the sequence of <<name, value>> pairs
\* in the order of the call, the names all different; the names the calls
\* use, in string order.
KwOrder == <<"a", "b", "fields", "limit">>
KwRank(k) == CHOOSE i \in 1..Len(KwOrder) : KwOrder[i] = k
RECURSIVE SortedKwargs(_)
SortedKwargs(kwargs) ==
    IF kwargs = <<>> THEN <<>>
    ELSE LET m == CHOOSE i \in 1..Len(kwargs) :
                      \A j \in 1..Len(kwargs) : KwRank(kwargs[i][1]) <= KwRank(kwargs[j][1])
         IN <<kwargs[m]>> \o
            SortedKwargs([i \in 1..(Len(kwargs) - 1) |->
                             IF i < m THEN kwargs[i] ELSE kwargs[i + 1]])

\* generate_cache_key(*args, **kwargs): the key string, of which the md5
\* digest is kept as its input.
KeyParts(args, items) ==
    args \o [i \in 1..Len(items) |-> <<items[i][1], ":">> \o items[i][2]]
generate_cache_key(args, kwargs) ==
    <<"md5">> \o JoinColon(KeyParts(args, SortedKwargs(kwargs)))

Miss == [raised |-> FALSE, hit |-> FALSE, img |-> Load(TNull)]

\* cache.get(key) of Flask-Caching.
CacheGet(store, up, k) ==
    IF ~up THEN [raised |-> TRUE, hit |-> FALSE, img |-> Load(TNull)]
    ELSE IF PrefixedKey(k) \in DOMAIN store
    THEN [raised |-> FALSE, hit |-> TRUE, img |-> store[PrefixedKey(k)].img]
    ELSE Miss

\* get_cached_data(cache_key): redis_client.get inside try/except, then
\* cache.get outside of any try.
get_cached_data(store, client, up, k) ==
    IF client /\ up /\ RawKey(k) \in DOMAIN store
    THEN [raised |-> FALSE, hit |-> TRUE, img |-> store[RawKey(k)].img]
    ELSE CacheGet(store, up, k)

\* The caller's `if cached_data:`.
CachedTruthy(g) == g.hit /\ ValTruthy(g.img.heap, g.img.root)

\* set_cached_data(cache_key, data, timeout): setex of json.dumps(data)
\* inside try/except (a reference cycle raises ValueError there), then
\* cache.set, which pickles the object graph, outside of any try.
set_cached_data(store, client, up, k, img, timeout) ==
    IF client /\ up /\ ~Cyclic(img.heap, img.root, {})
    THEN [raised |-> FALSE,
          store |-> (RawKey(k) :> [img |-> Load(ToTree(img.heap, img.root)),
                                    ttl |-> IF timeout # 0 THEN timeout
                                            ELSE CACHE_TIMEOUTS.meta_data])
                    @@ store]
    ELSE IF ~up THEN [raised |-> TRUE, store |-> store]
    ELSE [raised |-> FALSE,
          store |-> (PrefixedKey(k) :> [img |-> Canon(img),
                                         ttl |-> IF timeout # 0 THEN timeout
                                                 ELSE CACHE_DEFAULT_TIMEOUT])
                    @@ store]

DropPrefixed_flush(store) == [key \in {} |-> store[key]]

\* redis_client.keys(pattern) with pattern 'ipo_api:*', and delete(*keys).
DropPrefixed(store) ==
    [key \in {q \in DOMAIN store : ~HasPrefix(q)} |-> store[key]]

(***************************************************************************)
(* State.                                                                  *)
(***************************************************************************)
VARIABLES
    metaFile,      \* year -> current_meta.json: [st, mtime, ok, entries]
    recFile,       \* json_path -> record file: [st, mtime, ok, tree]
    clock,         \* the file system's clock
    today,         \* date.today()
    ipo_cache,     \* the module global ipo_cache
    redisUp,       \* the Redis server answers
    redis_client,  \* the module global redis_client is not None
    redis,         \* the Redis server's keyspace
    resp,          \* the response of the last request
    calls,         \* the load_year_data / get_ipo_detail_data calls it made,
                   \* <<>> once the environment has moved
    last,          \* <<year, json_path>> -> what get_ipo_detail_data returned last
    pc,            \* worker -> the line of get_ipo_detail_data it is about to run
    loc,           \* worker -> its local variables
    steps,         \* the number of steps taken
    arg,           \* the arguments a function is called with on its own
    outcome,       \* what it returned
    pipe           \* the ingestion pipeline: the HTML files it has saved and
                   \* process_meta_json's position, meta_data list and counter

vars == <<metaFile, recFile, clock, today, ipo_cache, redisUp, redis_client,
          redis, resp, calls, last, pc, loc, steps, arg, outcome, pipe>>

MaxSteps == 3
Workers == {1, 2}
Refresher == 0
Lines == Years \X Paths
NoLast == [set |-> FALSE, mtime |-> 0, ret |-> Load(TNull)]
\* A worker's locals: the arguments year (y) and ipo_json_path (p),
\* current_mtime (mtime), ipo_data as read (data) and as returned (got);
\* reloaded: it has passed the staleness test towards the reload; none: the
\* call returned None; raised: an exception has left the call; own: the
\* object returned is still the one the cache line holds; n: calls begun.
NoLoc == [y |-> 0, p |-> "", mtime |-> 0, data |-> Load(TNull), got |-> Load(TNull),
          reloaded |-> FALSE, none |-> FALSE, raised |-> FALSE, own |-> FALSE, n |-> 0]
Tick == steps < MaxSteps /\ steps' = steps + 1 /\ UNCHANGED <<arg, outcome, pipe>>

NoPipe == [pc |-> "idle", html |-> {}, meta |-> <<>>, i |-> 0]

NoImg == Load(TNull)
ForeignKey == <<"session:", "42">>

MetaAbsent(st) == [st |-> st, mtime |-> 0, ok |-> FALSE, entries |-> <<>>]
MetaText(m, entries) == [st |-> "file", mtime |-> m, ok |-> TRUE, entries |-> entries]
MetaBroken(m) == [st |-> "file", mtime |-> m, ok |-> FALSE, entries |-> <<>>]
RecAbsent == [st |-> "absent", mtime |-> 0, ok |-> FALSE, tree |-> TNull]
RecText(m, tree) == [st |-> "file", mtime |-> m, ok |-> TRUE, tree |-> tree]
RecBroken(m) == [st |-> "file", mtime |-> m, ok |-> FALSE, tree |-> TNull]

NoResp == [op |-> "none", code |-> 0, body |-> TNull, max_age |-> 0,
           has_etag |-> FALSE, etag |-> <<>>]
NoArg == [fn |-> "none"]
NoResult == [done |-> FALSE]

\* The corpus as the pipeline left it, an idle server, no request served yet.
InitWorld ==
    /\ metaFile = [y \in Years |-> IF y = 2025 THEN MetaText(1, IndexBoth)
                                   ELSE MetaText(1, IndexOld)]
    /\ recFile = [p \in Paths |-> IF p = PathA THEN RecText(1, DocOpen2)
                                  ELSE RecText(1, DocRange)]
    /\ clock = 1
    /\ today = 1
    /\ redis = (ForeignKey :> [img |-> Load(TStr("other")), ttl |-> 0])
    /\ resp = NoResp
    /\ calls = <<>>
    /\ last = [l \in Lines |-> NoLast]
    /\ pc = [w \in Workers \cup {Refresher} |-> "idle"]
    /\ loc = [w \in Workers \cup {Refresher} |-> NoLoc]
    /\ steps = 0
    /\ pipe = NoPipe

\* The module as imported: ipo_cache = {}, and redis_client is None when
\* the ping failed.
Init ==
    /\ InitWorld
    /\ ipo_cache = [y \in {} |-> 0]
    /\ redisUp \in BOOLEAN
    /\ redis_client = redisUp
    /\ arg = NoArg
    /\ outcome = NoResult

(***************************************************************************)
(* The environment: the ingestion pipeline, the clock, the Redis server.   *)
(***************************************************************************)
\* save_meta_data / process_meta_json rewrite a year's index in place.  A
\* reader that opens the file before the writer has finished meets a
\* truncated text, which json.load rejects (ok = FALSE).
WriteIndex(y) ==
    /\ clock < MaxMtime
    /\ clock' = clock + 1
    /\ \E f \in {MetaText(clock + 1, e) : e \in IndexTexts} \cup {MetaBroken(clock + 1)} :
           metaFile' = [metaFile EXCEPT ![y] = f]
    /\ UNCHANGED <<recFile, today, ipo_cache, redisUp, redis_client, redis, resp, last, pc, loc>>
    /\ calls' = <<>>
    /\ Tick

\* process_meta_json rewrites a record file in place.
WriteRecord(p) ==
    /\ clock < MaxMtime
    /\ clock' = clock + 1
    /\ \E f \in {RecText(clock + 1, t) : t \in RecordTexts} \cup {RecBroken(clock + 1)} :
           recFile' = [recFile EXCEPT ![p] = f]
    /\ UNCHANGED <<metaFile, today, ipo_cache, redisUp, redis_client, redis, resp, last, pc, loc>>
    /\ calls' = <<>>
    /\ Tick

\* A record file put back from a copy that keeps its older modification
\* time (cp -p, rsync -t, tar x); time 0 is a time before the start.
RestoreRecord(p) ==
    /\ recFile[p].st = "file"
    /\ \E m \in 0..(recFile[p].mtime - 1), t \in RecordTexts :
           recFile' = [recFile EXCEPT ![p] = RecText(m, t)]
    /\ UNCHANGED <<metaFile, clock, today, ipo_cache, redisUp, redis_client, redis, resp, last, pc, loc>>
    /\ calls' = <<>>
    /\ Tick

RemoveRecord(p) ==
    /\ recFile[p].st = "file"
    /\ recFile' = [recFile EXCEPT ![p] = RecAbsent]
    /\ UNCHANGED <<metaFile, clock, today, ipo_cache, redisUp, redis_client, redis, resp, last, pc, loc>>
    /\ calls' = <<>>
    /\ Tick

DayPasses ==
    /\ today < MaxDay
    /\ today' = today + 1
    /\ UNCHANGED <<metaFile, recFile, clock, ipo_cache, redisUp, redis_client, redis, resp, last, pc, loc>>
    /\ calls' = <<>>
    /\ Tick

RedisFlips ==
    /\ redisUp' = ~redisUp
    /\ UNCHANGED <<metaFile, recFile, clock, today, ipo_cache, redis_client, redis, resp, last, pc, loc>>
    /\ calls' = <<>>
    /\ Tick

\* The TTL of a key of this application runs out.
Expire ==
    /\ \E key \in DOMAIN redis \ {ForeignKey} :
           redis' = [q \in DOMAIN redis \ {key} |-> redis[q]]
    /\ UNCHANGED <<metaFile, recFile, clock, today, ipo_cache, redisUp, redis_client, resp, last, pc, loc>>
    /\ calls' = <<>>
    /\ Tick

(***************************************************************************)
(* Responses and the helpers of the request handlers.                      *)
(***************************************************************************)
Response(op, code, body) ==
    [op |-> op, code |-> code, body |-> body, max_age |-> 0,
     has_etag |-> FALSE, etag |-> <<>>]
\* Flask's answer to an exception that leaves a view function.
InternalError(op) == Response(op, 500, TNull)

\* `from datetime import datetime` binds the name datetime to the class
\* datetime.datetime, which has no attribute timedelta: evaluating
\* datetime.timedelta(seconds=max_age) raises AttributeError.
DatetimeHasTimedelta == FALSE

\* A dict as the interpreter holds it, its items in insertion order: q is
\* the sequence of its [k, v] items.
PDict(q) == [t |-> "odict", v |-> "", a |-> 0, kv |-> EmptyKV, s |-> q]

\* sorted() on the keys of a dict, by their rank in KeyOrder.
KeyOrder == <<"a", "b", "c", "d", "items", "name">>
KeyRank(k) ==
    IF \E i \in 1..Len(KeyOrder) : KeyOrder[i] = k
    THEN CHOOSE i \in 1..Len(KeyOrder) : KeyOrder[i] = k
    ELSE 0
RECURSIVE SortKeys(_)
SortKeys(S) ==
    IF S = {} THEN <<>>
    ELSE LET m == CHOOSE k \in S : \A j \in S : KeyRank(k) <= KeyRank(j)
         IN <<m>> \o SortKeys(S \ {m})

\* The items of a dict in the order json.dumps(sort_keys=True) writes them.
ItemOf(q, k) == q[CHOOSE i \in 1..Len(q) : q[i].k = k]
SortedItems(x) ==
    IF x.t = "odict"
    THEN LET ks == SortKeys({x.s[i].k : i \in 1..Len(x.s)})
         IN [i \in 1..Len(ks) |-> ItemOf(x.s, ks[i])]
    ELSE LET ks == SortKeys(DOMAIN x.kv)
         IN [i \in 1..Len(ks) |-> [k |-> ks[i], v |-> x.kv[ks[i]]]]

\* str(n) for the numbers of the corpus.
NumText(n) ==
    CASE n = 0 -> "0" [] n = 1 -> "1" [] n = 2 -> "2" [] n = 3 -> "3"
      [] n = 2024 -> "2024" [] n = 2025 -> "2025" [] OTHER -> "n"

\* json.dumps(data, sort_keys=True, default=str), as the sequence of its
\* tokens.
RECURSIVE json_dumps(_)
RECURSIVE DumpList(_, _)
RECURSIVE DumpItems(_, _)
DumpList(q, i) ==
    IF i > Len(q) THEN <<>>
    ELSE (IF i > 1 THEN <<",">> ELSE <<>>) \o json_dumps(q[i]) \o DumpList(q, i + 1)
DumpItems(q, i) ==
    IF i > Len(q) THEN <<>>
    ELSE (IF i > 1 THEN <<",">> ELSE <<>>) \o <<q[i].k, ":">> \o json_dumps(q[i].v)
         \o DumpItems(q, i + 1)
json_dumps(x) ==
    CASE x.t = "null" -> <<"null">>
      [] x.t = "str" -> <<"'", x.v, "'">>
      [] x.t = "num" -> <<NumText(x.a)>>
      [] x.t = "list" -> <<"[">> \o DumpList(x.s, 1) \o <<"]">>
      [] OTHER -> <<"{">> \o DumpItems(SortedItems(x), 1) \o <<"}">>

\* hashlib.md5(json.dumps(data, sort_keys=True, default=str).encode()).hexdigest():
\* the digest is kept as the text it is the digest of.
Fingerprint(tr) == <<"md5">> \o json_dumps(tr)

NoEtag == [given |-> FALSE, tag |-> TNull]
\* request.headers.get('If-None-Match', '').strip('"') of a request without
\* the header.
NoInm == [given |-> FALSE, tag |-> <<>>]

\* add_cache_headers(response, max_age, etag_data); etag_data = NoEtag.tag
\* when the caller passes none.  The Expires header is computed before the
\* ETag is set and before the function returns.
add_cache_headers(response, max_age, etag_data) ==
    [raised |-> ~DatetimeHasTimedelta,
     response |-> [response EXCEPT !.max_age = max_age,
                                   !.has_etag = Truthy(etag_data),
                                   !.etag = IF Truthy(etag_data)
                                            THEN Fingerprint(etag_data) ELSE <<>>]]

\* `return add_cache_headers(make_response(jsonify(body)), max_age=..., etag_data=...)`.
Finish(op, body, max_age, etag_data) ==
    LET r == add_cache_headers(Response(op, 200, body), max_age, etag_data)
    IN IF r.raised THEN InternalError(op) ELSE r.response

\* check_etag_and_return_304(etag_data) for a request whose If-None-Match
\* header is inm: TRUE when it returns the 304 response.
check_etag_and_return_304(etag_data, inm) ==
    Truthy(etag_data) /\ inm.given /\ inm.tag = Fingerprint(etag_data)

NotModified(op, etag_data) ==
    [Response(op, 304, TNull) EXCEPT !.has_etag = TRUE, !.etag = Fingerprint(etag_data)]

RECURSIVE SortDesc(_)
SortDesc(S) ==
    IF S = {} THEN <<>>
    ELSE LET m == CHOOSE a \in S : \A b \in S : b <= a
         IN <<m>> \o SortDesc(S \ {m})

\* os.listdir(IPO_DATA_BASE_DIR), and the years among the names.
DirNames(mf) == {YearStr(y) : y \in {z \in Years : mf[z].st # "nodir"}} \cup OtherDirNames
years_to_process(mf) ==
    {ParseInt(name).n : name \in {q \in DirNames(mf) : ParseInt(q).ok}}

\* The years other than y are in cache d what they are in cache c.
SameOthers(c, d, y) ==
    /\ DOMAIN d \ {y} = DOMAIN c \ {y}
    /\ \A z \in DOMAIN c \ {y} : d[z] = c[z]

\* The record of one call: what it found on disk and in ipo_cache, and what
\* it did.
CallYear(c, mf, y, r) ==
    [fn |-> "year", y |-> y, p |-> "", had |-> y \in DOMAIN c,
     exists |-> mf[y].st = "file", mtime |-> mf[y].mtime, parses |-> mf[y].ok,
     entries |-> mf[y].entries, disk |-> NoImg,
     stored |-> IF y \in DOMAIN c THEN c[y].meta_mtime ELSE 0,
     read |-> r.read, ok |-> r.ok, before |-> NoImg, ret |-> NoImg,
     index |-> IF y \in DOMAIN r.cache THEN r.cache[y].meta_data ELSE <<>>,
     unchanged |-> r.cache = c,
     held |-> IF y \in DOMAIN c THEN DOMAIN c[y].ipo_data ELSE {},
     holds |-> IF y \in DOMAIN r.cache THEN DOMAIN r.cache[y].ipo_data ELSE {},
     others |-> SameOthers(c, r.cache, y)]

HasLine(c, y, p) == y \in DOMAIN c /\ p \in DOMAIN c[y].ipo_data

CallDetail(c, rf, y, p, r) ==
    [fn |-> "detail", y |-> y, p |-> p, had |-> HasLine(c, y, p),
     exists |-> rf[p].st = "file", mtime |-> rf[p].mtime, parses |-> rf[p].ok,
     entries |-> <<>>, disk |-> Load(rf[p].tree),
     stored |-> IF HasLine(c, y, p) THEN c[y].ipo_data[p].mtime ELSE 0,
     read |-> r.read, ok |-> ~r.none,
     before |-> IF HasLine(c, y, p) THEN c[y].ipo_data[p].data ELSE NoImg,
     ret |-> IF r.none THEN NoImg ELSE r.cache[y].ipo_data[p].data,
     index |-> <<>>,
     unchanged |-> r.cache = c,
     held |-> IF y \in DOMAIN c THEN DOMAIN c[y].ipo_data ELSE {},
     holds |-> IF y \in DOMAIN r.cache THEN DOMAIN r.cache[y].ipo_data ELSE {},
     others |-> SameOthers(c, r.cache, y)]

\* `if data and "ipo_details" in data: status = get_ipo_status(...)`.
DocStatus(img, day) ==
    LET root == img.heap[img.root.a]
    IN IF "ipo_details" \in DOMAIN root.kv
       THEN get_ipo_status(img.heap, root.kv["ipo_details"], day)
       ELSE StatusOf("Unknown")

\* One entry of a list response (url and html_path are copied like name).
Row(e, y, status) ==
    TDict([name |-> TStr(e.name), slug |-> TStr(e.slug),
           json_path |-> IF e.has_json_path THEN TStr(e.json_path) ELSE TNull,
           year |-> TNum(y), status |-> TStr(status)])

LowerStatus(st) ==
    CASE st = "Upcoming" -> "upcoming" [] st = "Open" -> "open"
      [] st = "Closed" -> "closed" [] OTHER -> "unknown"

\* The end of the loop body of the list handlers: the entry with its status
\* is appended (when it passes the status filter want, "" for none).
EntryRow(acc, rf, y, e, want, r, st) ==
    [cache |-> r.cache,
     calls |-> Append(acc.calls, CallDetail(acc.cache, rf, y, e.json_path, r)),
     raised |-> st.raised,
     rows |-> IF ~st.raised /\ (want = "" \/ LowerStatus(st.status) = want)
              THEN Append(acc.rows, Row(e, y, st.status))
              ELSE acc.rows]

\* The body of the loop over ipo_cache[year]['meta_data'] in the list
\* handlers.  strict: the handler reads ipo_meta['json_path'] (KeyError on
\* an entry without one) instead of skipping the entry.
EntryLoaded(acc, rf, day, y, e, want, r) ==
    EntryRow(acc, rf, y, e, want, r,
             IF r.none THEN StatusOf("Unknown")
             ELSE DocStatus(r.cache[y].ipo_data[e.json_path].data, day))

EntryStep(acc, mf, rf, day, y, e, strict, want) ==
    IF acc.raised THEN acc
    ELSE IF ~e.has_json_path
    THEN IF strict THEN [acc EXCEPT !.raised = TRUE] ELSE acc
    ELSE EntryLoaded(acc, rf, day, y, e, want,
                     get_ipo_detail_data(acc.cache, mf, rf, y, e.json_path))

RECURSIVE WalkEntries(_, _, _, _, _, _, _, _, _)
WalkEntries(acc, mf, rf, day, y, entries, i, strict, want) ==
    IF i > Len(entries) THEN acc
    ELSE WalkEntries(EntryStep(acc, mf, rf, day, y, entries[i], strict, want),
                     mf, rf, day, y, entries, i + 1, strict, want)

\* The walk's record after load_year_data(year) did r.
AfterYear(acc, mf, y, r) ==
    [acc EXCEPT !.cache = r.cache, !.calls = Append(@, CallYear(acc.cache, mf, y, r))]

WalkLoaded(acc, mf, rf, day, y, strict, want, r) ==
    IF ~r.ok THEN AfterYear(acc, mf, y, r)
    ELSE WalkEntries(AfterYear(acc, mf, y, r), mf, rf, day, y, r.cache[y].meta_data, 1,
                     strict, want)

\* `if load_year_data(year): for ipo_meta in ipo_cache[year]['meta_data']: ...`
WalkYear(acc, mf, rf, day, y, strict, want) ==
    IF acc.raised THEN acc
    ELSE WalkLoaded(acc, mf, rf, day, y, strict, want, load_year_data(acc.cache, mf, y))

\* `for year in sorted(years_to_process, reverse=True): ...`
RECURSIVE WalkYears(_, _, _, _, _, _, _, _)
WalkYears(acc, mf, rf, day, ys, i, strict, want) ==
    IF i > Len(ys) THEN acc
    ELSE WalkYears(WalkYear(acc, mf, rf, day, ys[i], strict, want),
                   mf, rf, day, ys, i + 1, strict, want)

StartWalk(c) == [cache |-> c, calls |-> <<>>, raised |-> FALSE, rows |-> <<>>]

\* What a handler leaves behind: the response, ipo_cache, the keyspace and
\* the calls it made.
Out(r, c, store, log) == [resp |-> r, cache |-> c, store |-> store, calls |-> log]

(***************************************************************************)
(* The request handlers, each on the state (c, store) it finds.            *)
(***************************************************************************)
BodyOf(img) == ToTree(img.heap, img.root)
Unserializable(img) == Cyclic(img.heap, img.root, {})

\* The common opening of the cached endpoints:
\*   cached_data = get_cached_data(cache_key)
\*   if cached_data: return add_cache_headers(make_response(jsonify(cached_data)), ...)
FromCache(op, g, max_age) ==
    IF Unserializable(g.img) THEN InternalError(op)
    ELSE Finish(op, BodyOf(g.img), max_age, NoEtag.tag)

YearsBody(mf) == TList(LET ys == SortDesc({y \in Years : mf[y].st = "file"})
                       IN [i \in 1..Len(ys) |-> TNum(ys[i])])

\* get_available_years after the cache lookup missed: result is the list of
\* years, put what set_cached_data did with it.
YearsReply(c, store, inm, result, put) ==
    IF check_etag_and_return_304(result, inm)
    THEN Out(NotModified("years", result), c, store, <<>>)
    ELSE IF put.raised THEN Out(InternalError("years"), c, store, <<>>)
    ELSE Out(Finish("years", result, CACHE_TIMEOUTS.meta_data, result), c, put.store, <<>>)

YearsComputed(c, store, client, up, inm, result) ==
    YearsReply(c, store, inm, result,
               set_cached_data(store, client, up, <<"available_years">>, Load(result),
                               CACHE_TIMEOUTS.meta_data))

\* get_available_years after get_cached_data returned g; cached is the text
\* of the cached value.
YearsCached(c, store, inm, cached) ==
    IF check_etag_and_return_304(cached, inm)
    THEN Out(NotModified("years", cached), c, store, <<>>)
    ELSE Out(Finish("years", cached, CACHE_TIMEOUTS.meta_data, cached), c, store, <<>>)

YearsLookedUp(c, store, client, up, mf, inm, g) ==
    IF g.raised THEN Out(InternalError("years"), c, store, <<>>)
    ELSE IF CachedTruthy(g) THEN YearsCached(c, store, inm, BodyOf(g.img))
    ELSE YearsComputed(c, store, client, up, inm, YearsBody(mf))

\* GET /api/ipo/years
get_available_years(c, store, client, up, mf, inm) ==
    YearsLookedUp(c, store, client, up, mf, inm,
                  get_cached_data(store, client, up, <<"available_years">>))

\* The end of the cached list handlers: w is the walk over the entries, put
\* what set_cached_data did with its rows.
ListReply(op, store, w, put) ==
    IF w.raised \/ put.raised THEN Out(InternalError(op), w.cache, store, w.calls)
    ELSE Out(Finish(op, TList(w.rows), CACHE_TIMEOUTS.meta_data, NoEtag.tag),
             w.cache, put.store, w.calls)

ListWalked(op, key, store, client, up, w) ==
    ListReply(op, store, w,
              set_cached_data(store, client, up, key, Load(TList(w.rows)),
                              CACHE_TIMEOUTS.meta_data))

AllLookedUp(c, store, client, up, mf, rf, day, g) ==
    IF g.raised THEN Out(InternalError("all"), c, store, <<>>)
    ELSE IF CachedTruthy(g)
    THEN Out(FromCache("all", g, CACHE_TIMEOUTS.meta_data), c, store, <<>>)
    ELSE ListWalked("all", <<"all_ipos">>, store, client, up,
                    WalkYears(StartWalk(c), mf, rf, day, SortDesc(years_to_process(mf)),
                              1, FALSE, ""))

\* GET /api/ipo/all
get_all_ipos(c, store, client, up, mf, rf, day) ==
    AllLookedUp(c, store, client, up, mf, rf, day,
                get_cached_data(store, client, up, <<"all_ipos">>))

\* `if not load_year_data(year): abort(404)`, then the loop.
YearWalked(key, store, client, up, w) ==
    IF ~w.calls[1].ok THEN Out(Response("year", 404, TNull), w.cache, store, w.calls)
    ELSE ListWalked("year", key, store, client, up, w)

YearLookedUp(c, store, client, up, mf, rf, day, y, g) ==
    IF g.raised THEN Out(InternalError("year"), c, store, <<>>)
    ELSE IF CachedTruthy(g)
    THEN Out(FromCache("year", g, CACHE_TIMEOUTS.meta_data), c, store, <<>>)
    ELSE YearWalked(<<"year_", YearStr(y), "_ipos">>, store, client, up,
                    WalkYear(StartWalk(c), mf, rf, day, y, TRUE, ""))

\* GET /api/ipo/year/<year>
get_ipos_by_year(c, store, client, up, mf, rf, day, y) ==
    YearLookedUp(c, store, client, up, mf, rf, day, y,
                 get_cached_data(store, client, up, <<"year_", YearStr(y), "_ipos">>))

StatusTokens == {"upcoming", "open", "closed"}

StatusWalked(store, w) ==
    IF w.raised THEN Out(InternalError("status"), w.cache, store, w.calls)
    ELSE Out(Response("status", 200, TList(w.rows)), w.cache, store, w.calls)

\* GET /api/ipo/status/<status_type>; st is status_type.lower().
get_ipos_by_status(c, store, mf, rf, day, st) ==
    IF st \notin StatusTokens THEN Out(Response("status", 400, TNull), c, store, <<>>)
    ELSE StatusWalked(store,
                      WalkYears(StartWalk(c), mf, rf, day, SortDesc(years_to_process(mf)),
                                1, TRUE, st))

(***************************************************************************)
(* The fields parameter: get_nested_value and the reconstruction loop of   *)
(* get_single_ipo_by_slug.  Both work on the heap of the cached document:  *)
(* filtered_response is a fresh dict of that heap, and the values put into *)
(* it are the document's own objects.                                      *)
(***************************************************************************)
\* str.split(sep) on a sequence of tokens.
RECURSIVE SplitOn(_, _, _, _)
SplitOn(q, sep, i, cur) ==
    IF i > Len(q) THEN <<cur>>
    ELSE IF q[i] = sep THEN <<cur>> \o SplitOn(q, sep, i + 1, <<>>)
    ELSE SplitOn(q, sep, i + 1, Append(cur, q[i]))

\* A path segment as a string: the segments of the model are one token long.
Segment(tokens) == IF Len(tokens) = 1 THEN tokens[1] ELSE ""

\* [f.strip() for f in fields_param.split(',')], each then split('.').
requested_fields(fields_param) ==
    LET fs == SplitOn(fields_param, ",", 1, <<>>)
        parts(f) == LET ps == SplitOn(Strip(f), ".", 1, <<>>)
                    IN [j \in 1..Len(ps) |-> Segment(ps[j])]
    IN [i \in 1..Len(fs) |-> parts(fs[i])]

\* str.isdigit() and int() on a segment.
IsDigit(seg) == seg \in {"0", "1", "2"}
IntOf(seg) == CASE seg = "0" -> 0 [] seg = "1" -> 1 [] seg = "2" -> 2 [] OTHER -> 0

IsDictAt(h, x) == IsRef(x) /\ h[x.a].t = "dict"
IsListAt(h, x) == IsRef(x) /\ h[x.a].t = "list"

\* get_nested_value(data, key_path), keys = key_path.split('.').
RECURSIVE get_nested_value(_, _, _, _)
get_nested_value(h, cur, keys, i) ==
    IF i > Len(keys) THEN cur
    ELSE IF IsDictAt(h, cur) /\ keys[i] \in DOMAIN h[cur.a].kv
    THEN get_nested_value(h, h[cur.a].kv[keys[i]], keys, i + 1)
    ELSE IF IsListAt(h, cur) /\ IsDigit(keys[i])
    THEN IF IntOf(keys[i]) < Len(h[cur.a].s)
         THEN get_nested_value(h, h[cur.a].s[IntOf(keys[i]) + 1], keys, i + 1)
         ELSE VNull
    ELSE VNull

\* `while len(temp_target[part]) <= index: temp_target[part].append({})`
RECURSIVE Pad(_, _, _)
Pad(h, la, index) ==
    IF Len(h[la].s) > index THEN h
    ELSE Pad([Append(h, ODict(EmptyKV)) EXCEPT ![la].s = Append(@, VRef(Len(h) + 1))],
             la, index)

\* The loop `for i, part in enumerate(path_parts)` from part i on, with
\* temp_target = temp.  `part not in temp_target` and `temp_target[part] =`
\* raise TypeError unless temp_target is a dict.
RECURSIVE Rebuild(_, _, _, _, _)
Rebuild(h, temp, parts, i, value) ==
    IF ~IsDictAt(h, temp) THEN [raised |-> TRUE, heap |-> h]
    ELSE LET part == parts[i]
             d == h[temp.a]
         IN IF i = Len(parts)
            THEN [raised |-> FALSE,
                  heap |-> [h EXCEPT ![temp.a].kv = (part :> value) @@ @]]
            ELSE IF IsDigit(parts[i + 1])
            THEN LET keep == part \in DOMAIN d.kv /\ IsListAt(h, d.kv[part])
                     la == IF keep THEN d.kv[part].a ELSE Len(h) + 1
                     h1 == IF keep THEN h
                           ELSE [Append(h, OList(<<>>))
                                    EXCEPT ![temp.a].kv = (part :> VRef(la)) @@ @]
                     h2 == Pad(h1, la, IntOf(parts[i + 1]))
                 IN Rebuild(h2, h2[la].s[IntOf(parts[i + 1]) + 1], parts, i + 1, value)
            ELSE LET keep == part \in DOMAIN d.kv /\ IsDictAt(h, d.kv[part])
                     da == IF keep THEN d.kv[part].a ELSE Len(h) + 1
                     h1 == IF keep THEN h
                           ELSE [Append(h, ODict(EmptyKV))
                                    EXCEPT ![temp.a].kv = (part :> VRef(da)) @@ @]
                 IN Rebuild(h1, VRef(da), parts, i + 1, value)

\* `for field_path in requested_fields: ...` from path j on; froot is
\* filtered_response, droot is ipo_data.
RECURSIVE ProjectFrom(_, _, _, _, _)
ProjectNext(r, droot, froot, paths, j) ==
    IF r.raised THEN r ELSE ProjectFrom(r.heap, droot, froot, paths, j)

ProjectFrom(h, droot, froot, paths, j) ==
    IF j > Len(paths) THEN [raised |-> FALSE, heap |-> h]
    ELSE ProjectNext(Rebuild(h, froot, paths[j], 1, get_nested_value(h, droot, paths[j], 1)),
                     droot, froot, paths, j + 1)

Projected(img, froot, r) ==
    [raised |-> r.raised,
     data |-> Canon([root |-> img.root, heap |-> r.heap]),
     filtered |-> Canon([root |-> froot, heap |-> r.heap])]

\* The `if fields_param:` branch on document img: the heap afterwards, the
\* document and filtered_response in it.
Project(img, fields_param) ==
    Projected(img, VRef(Len(img.heap) + 1),
              ProjectFrom(Append(img.heap, ODict(EmptyKV)), img.root,
                          VRef(Len(img.heap) + 1), requested_fields(fields_param), 1))

(***************************************************************************)
(* GET /api/ipo/details/<ipo_slug>, clear_and_preload_cache.               *)
(***************************************************************************)
NotFound == [found |-> FALSE, y |-> 0, e |-> AddSlug(Entry("", FALSE, ""))]

\* The search `for year in sorted(years_to_process, reverse=True)` for the
\* first entry whose slug is ipo_slug; r is what load_year_data did for
\* year ys[i], hits the places of the slug in that year's index.
RECURSIVE FindSlug(_, _, _, _, _)
FindHits_last(acc, mf, ys, i, slug, r, hits) ==
    IF r.ok /\ hits # {}
    THEN [AfterYear(acc, mf, ys[i], r)
             EXCEPT !.hit = [found |-> TRUE, y |-> ys[i],
                             e |-> r.cache[ys[i]].meta_data[
                                       CHOOSE n \in hits : \A m \in hits : m <= n]]]
    ELSE FindSlug(AfterYear(acc, mf, ys[i], r), mf, ys, i + 1, slug)

FindHits(acc, mf, ys, i, slug, r, hits) ==
    IF r.ok /\ hits # {}
    THEN [AfterYear(acc, mf, ys[i], r)
             EXCEPT !.hit = [found |-> TRUE, y |-> ys[i],
                             e |-> r.cache[ys[i]].meta_data[
                                       CHOOSE n \in hits : \A m \in hits : n <= m]]]
    ELSE FindSlug(AfterYear(acc, mf, ys[i], r), mf, ys, i + 1, slug)

FindLoaded(acc, mf, ys, i, slug, r) ==
    FindHits(acc, mf, ys, i, slug, r,
             IF r.ok THEN {n \in 1..Len(r.cache[ys[i]].meta_data) :
                              r.cache[ys[i]].meta_data[n].slug = slug}
             ELSE {})

FindSlug(acc, mf, ys, i, slug) ==
    IF i > Len(ys) THEN acc
    ELSE FindLoaded(acc, mf, ys, i, slug, load_year_data(acc.cache, mf, ys[i]))

\* ipo_data['status'] = status
SetStatus(img, status) ==
    [img EXCEPT !.heap[img.root.a].kv = ("status" :> VStr(status)) @@ @]

SetLine(c, y, p, img) == [c EXCEPT ![y].ipo_data[p].data = img]

\* The request of GET /api/ipo/details/<slug>: fields is the fields query
\* parameter as a sequence of tokens, <<>> when the request has none.
DetailsRequest(client, up, mf, rf, day, slug, fields) ==
    [client |-> client, up |-> up, mf |-> mf, rf |-> rf, day |-> day, slug |-> slug,
     fields |-> fields,
     key |-> generate_cache_key(<<<<"ipo_details">>, <<slug>>>>,
                 <<<<"fields", IF fields = <<>> THEN <<"all">> ELSE fields>>>>)]

\* set_cached_data(cache_key, ...), make_response(jsonify(...)),
\* add_cache_headers(...): put is what set_cached_data did.
DetailsReply(rq, c, store, log, body, put) ==
    IF put.raised THEN Out(InternalError("details"), c, store, log)
    ELSE IF Unserializable(body) THEN Out(InternalError("details"), c, put.store, log)
    ELSE Out(Finish("details", BodyOf(body), CACHE_TIMEOUTS.ipo_details, NoEtag.tag),
             c, put.store, log)

DetailsStore(rq, c, store, log, body) ==
    DetailsReply(rq, c, store, log, body,
                 set_cached_data(store, rq.client, rq.up, rq.key, body,
                                 CACHE_TIMEOUTS.ipo_details))

\* `if fields_param:` pr is the outcome of the projection loop, which works
\* on the cached document itself.
DetailsProjected(rq, c, store, log, y, p, pr) ==
    IF pr.raised THEN Out(InternalError("details"), SetLine(c, y, p, pr.data), store, log)
    ELSE DetailsStore(rq, SetLine(c, y, p, pr.data), store, log, pr.filtered)

\* ipo_data['status'] = status, then the two branches on fields_param.
DetailsStatus(rq, c, store, log, y, p, img, st) ==
    IF st.raised THEN Out(InternalError("details"), c, store, log)
    ELSE IF rq.fields # <<>>
    THEN DetailsProjected(rq, c, store, log, y, p,
                          Project(SetStatus(img, st.status), rq.fields))
    ELSE DetailsStore(rq, SetLine(c, y, p, SetStatus(img, st.status)), store, log,
                      SetStatus(img, st.status))

\* `if not ipo_data: abort(500)`: d is what get_ipo_detail_data did.
DetailsLoaded(rq, c, store, log, y, p, d) ==
    IF d.none THEN Out(InternalError("details"), d.cache, store, Append(log, CallDetail(c, rq.rf, y, p, d)))
    ELSE IF ~ValTruthy(d.cache[y].ipo_data[p].data.heap, d.cache[y].ipo_data[p].data.root)
    THEN Out(InternalError("details"), d.cache, store, Append(log, CallDetail(c, rq.rf, y, p, d)))
    ELSE DetailsStatus(rq, d.cache, store, Append(log, CallDetail(c, rq.rf, y, p, d)), y, p,
                       d.cache[y].ipo_data[p].data,
                       DocStatus(d.cache[y].ipo_data[p].data, rq.day))

\* `if not found_ipo_meta: abort(404)`; found_ipo_meta['json_path'] raises
\* KeyError for an entry without that key.
DetailsFound(rq, store, f) ==
    IF ~f.hit.found THEN Out(Response("details", 404, TNull), f.cache, store, f.calls)
    ELSE IF ~f.hit.e.has_json_path THEN Out(InternalError("details"), f.cache, store, f.calls)
    ELSE DetailsLoaded(rq, f.cache, store, f.calls, f.hit.y, f.hit.e.json_path,
                       get_ipo_detail_data(f.cache, rq.mf, rq.rf, f.hit.y, f.hit.e.json_path))

\* `cached_data = get_cached_data(cache_key); if cached_data: ...`
DetailsCached(rq, c, store, g) ==
    IF g.raised THEN Out(InternalError("details"), c, store, <<>>)
    ELSE IF CachedTruthy(g)
    THEN Out(FromCache("details", g, CACHE_TIMEOUTS.ipo_details), c, store, <<>>)
    ELSE DetailsFound(rq, store,
                      FindSlug([cache |-> c, calls |-> <<>>, hit |-> NotFound], rq.mf,
                               SortDesc(years_to_process(rq.mf)), 1, rq.slug))

get_single_ipo_by_slug(c, store, rq) ==
    DetailsCached(rq, c, store, get_cached_data(store, rq.client, rq.up, rq.key))

RECURSIVE Preload_stop(_, _, _)
Preload_stop(acc, mf, ys) ==
    IF ys = {} THEN acc
    ELSE LET y == CHOOSE z \in ys : TRUE
             r == load_year_data(acc.cache, mf, y)
         IN IF ~r.ok
            THEN [cache |-> r.cache, calls |-> Append(acc.calls, CallYear(acc.cache, mf, y, r))]
            ELSE Preload_stop([cache |-> r.cache,
                               calls |-> Append(acc.calls, CallYear(acc.cache, mf, y, r))],
                              mf, ys \ {y})

\* The loop of clear_and_preload_cache over os.listdir: load_year_data for
\* every name that is a number.
RECURSIVE Preload(_, _, _)
Preload(acc, mf, ys) ==
    IF ys = {} THEN acc
    ELSE LET y == CHOOSE z \in ys : TRUE
             r == load_year_data(acc.cache, mf, y)
         IN Preload([cache |-> r.cache, calls |-> Append(acc.calls, CallYear(acc.cache, mf, y, r))],
                    mf, ys \ {y})

\* clear_and_preload_cache(): the keys 'ipo_api:*' deleted through
\* redis_client inside try/except, cache.clear() outside of any try (it
\* deletes the keys under Flask-Caching's key prefix), ipo_cache = {}, then
\* the preload.
clear_and_preload_cache(c, store, client, up, mf) ==
    LET pre == Preload([cache |-> [y \in {} |-> 0], calls |-> <<>>], mf, years_to_process(mf))
    IN IF ~up THEN [raised |-> TRUE, cache |-> c, store |-> store, calls |-> <<>>]
       ELSE [raised |-> FALSE, cache |-> pre.cache, store |-> DropPrefixed(store),
             calls |-> pre.calls]

(***************************************************************************)
(* GET /api/ipo/overview.                                                  *)
(***************************************************************************)
\* request.args.get('limit', type=int): None when the parameter is absent
\* or is not an integer, and str(limit) as generate_cache_key writes it.
NoLimit == [given |-> FALSE, n |-> 0]
Limit(n) == [given |-> TRUE, n |-> n]
LimitStr(limit) ==
    IF ~limit.given THEN <<"None">>
    ELSE IF limit.n < 0 THEN <<"-", NumText(0 - limit.n)>>
    ELSE <<NumText(limit.n)>>

OverviewKey(limit) == generate_cache_key(<<<<"overview">>>>, <<<<"limit", LimitStr(limit)>>>>)

\* q[:limit]
Slice(q, limit) ==
    IF ~limit.given THEN q
    ELSE IF limit.n >= 0 THEN SubSeq(q, 1, IF limit.n < Len(q) THEN limit.n ELSE Len(q))
    ELSE SubSeq(q, 1, IF Len(q) + limit.n > 0 THEN Len(q) + limit.n ELSE 0)

\* date.today().year: the days of the model are days of January 2030.
YearOfToday(day) == 2030

\* ipo_entry: name, slug, year and status (url, the prices, lot_size and
\* the dates are read from the same entry and document).
OverviewEntry(row) ==
    TDict([k \in {"name", "slug", "year", "status"} |-> row.kv[k]])
WithStatus(rows, status) ==
    LET hits == SelectSeq(rows, LAMBDA row : row.kv["status"] = TStr(status))
    IN [i \in 1..Len(hits) |-> OverviewEntry(hits[i])]

\* The dict `overview` built from the entries of the loop.
Overview(rows, limit, day) ==
    TDict([total_ipos_current_year |->
               TNum(Len(SelectSeq(rows, LAMBDA row : row.kv["year"] = TNum(YearOfToday(day))))),
           total_upcoming_ipos_count |-> TNum(Len(WithStatus(rows, "Upcoming"))),
           total_open_ipos_count |-> TNum(Len(WithStatus(rows, "Open"))),
           total_closed_ipos_count |-> TNum(Len(WithStatus(rows, "Closed"))),
           upcoming_ipos_list |-> TList(Slice(WithStatus(rows, "Upcoming"), limit)),
           open_ipos_list |-> TList(Slice(WithStatus(rows, "Open"), limit)),
           closed_ipos_list |-> TList(Slice(WithStatus(rows, "Closed"), limit))])

OverviewReply(store, w, body, put) ==
    IF put.raised THEN Out(InternalError("overview"), w.cache, store, w.calls)
    ELSE Out(Finish("overview", body, CACHE_TIMEOUTS.overview, NoEtag.tag),
             w.cache, put.store, w.calls)

\* The loop reads ipo_meta.get('json_path') and skips an entry without one;
\* get_ipo_status and the loop over ipo_details raise on a short row.
OverviewWalked(store, client, up, day, limit, w) ==
    IF w.raised THEN Out(InternalError("overview"), w.cache, store, w.calls)
    ELSE OverviewReply(store, w, Overview(w.rows, limit, day),
                       set_cached_data(store, client, up, OverviewKey(limit),
                                       Load(Overview(w.rows, limit, day)),
                                       CACHE_TIMEOUTS.overview))

OverviewLookedUp(c, store, client, up, mf, rf, day, limit, g) ==
    IF g.raised THEN Out(InternalError("overview"), c, store, <<>>)
    ELSE IF CachedTruthy(g)
    THEN Out(FromCache("overview", g, CACHE_TIMEOUTS.overview), c, store, <<>>)
    ELSE OverviewWalked(store, client, up, day, limit,
                        WalkYears(StartWalk(c), mf, rf, day, SortDesc(years_to_process(mf)),
                                  1, FALSE, ""))

get_ipo_overview(c, store, client, up, mf, rf, day, limit) ==
    OverviewLookedUp(c, store, client, up, mf, rf, day, limit,
                     get_cached_data(store, client, up, OverviewKey(limit)))

(***************************************************************************)
(* Actions: one request served from start to end.                          *)
(***************************************************************************)
Slugs == {"acme", "b-b", "nosuch"}
FieldsNone == <<>>
FieldsAll == <<"all">>
FieldsAbout == <<"about_company", ",", "about_company", ".", "founded">>
FieldsInputs == {FieldsNone, FieldsAll, FieldsAbout}
EtagInputs ==
    {NoInm} \cup {[given |-> TRUE, tag |-> Fingerprint(TList(q))] :
                      q \in {<<TNum(2025), TNum(2024)>>, <<TNum(2025)>>}}

\* What each line's last get_ipo_detail_data call returned, and the
\* modification time its file had then.
RECURSIVE Returned(_, _, _)
Returned(l, log, i) ==
    IF i > Len(log) THEN l
    ELSE IF log[i].fn = "detail" /\ log[i].ok
    THEN Returned([l EXCEPT ![<<log[i].y, log[i].p>>] =
                       [set |-> TRUE, mtime |-> recFile[log[i].p].mtime, ret |-> log[i].ret]],
                  log, i + 1)
    ELSE Returned(l, log, i + 1)

Serve(out) ==
    /\ resp' = out.resp
    /\ ipo_cache' = out.cache
    /\ redis' = out.store
    /\ calls' = out.calls
    /\ last' = Returned(last, out.calls, 1)
    /\ Tick
    /\ UNCHANGED <<metaFile, recFile, clock, today, redisUp, redis_client, pc, loc>>

GetAvailableYears ==
    \E inm \in EtagInputs :
        Serve(get_available_years(ipo_cache, redis, redis_client, redisUp, metaFile, inm))

GetAllIpos ==
    Serve(get_all_ipos(ipo_cache, redis, redis_client, redisUp, metaFile, recFile, today))

GetIposByYear ==
    \E y \in Years :
        Serve(get_ipos_by_year(ipo_cache, redis, redis_client, redisUp, metaFile, recFile, today, y))

GetIposByStatus ==
    \E st \in StatusTokens \cup {"unknown"} :
        Serve(get_ipos_by_status(ipo_cache, redis, metaFile, recFile, today, st))

GetSingleIpoBySlug ==
    \E slug \in Slugs, fields \in FieldsInputs :
        Serve(get_single_ipo_by_slug(ipo_cache, redis,
                  DetailsRequest(redis_client, redisUp, metaFile, recFile, today, slug, fields)))

\* POST /api/cache/clear
ForceCacheClear ==
    LET r == clear_and_preload_cache(ipo_cache, redis, redis_client, redisUp, metaFile)
    IN Serve(Out(IF r.raised THEN InternalError("clear") ELSE Response("clear", 200, TNull),
                 r.cache, r.store, r.calls))

Next ==
    \/ \E y \in Years : WriteIndex(y)
    \/ \E p \in Paths : WriteRecord(p)
    \/ \E p \in Paths : RestoreRecord(p)
    \/ \E p \in Paths : RemoveRecord(p)
    \/ DayPasses
    \/ RedisFlips
    \/ Expire
    \/ GetAvailableYears
    \/ GetAllIpos
    \/ GetIposByYear
    \/ GetIposByStatus
    \/ GetSingleIpoBySlug
    \/ ForceCacheClear

Spec == Init /\ [][Next]_vars
(***************************************************************************)
(* The same code line by line: request workers inside                      *)
(* get_single_ipo_by_slug -> get_ipo_detail_data, the refresher thread     *)
(* inside clear_and_preload_cache, and process_meta_json rewriting a       *)
(* record file in place.  No lock is taken anywhere in ipo_api.py, so the  *)
(* threads interleave between any two of these steps.                      *)
(***************************************************************************)
MaxCalls == 1
MaxRefresh == 1
ConcPaths == {PathA}

ConcFrame ==
    UNCHANGED <<metaFile, today, redisUp, redis_client, redis, resp, calls, last, steps,
                arg, outcome, pipe>>
Goto(w, label) == pc' = [pc EXCEPT ![w] = label]
Line(w) == ipo_cache[loc[w].y].ipo_data[loc[w].p]

\* After the startup of __main__ with Redis up: clear_and_preload_cache has
\* loaded every year's index.
InitConc ==
    /\ InitWorld
    /\ redisUp = TRUE
    /\ redis_client = TRUE
    /\ ipo_cache = Preload([cache |-> [y \in {} |-> 0], calls |-> <<>>], metaFile,
                           years_to_process(metaFile)).cache
    /\ arg = NoArg
    /\ outcome = NoResult

\* get_single_ipo_by_slug has found its entry and calls
\* get_ipo_detail_data(target_year, found_ipo_meta['json_path']).
Begin(w, p) ==
    /\ pc[w] = "idle" /\ loc[w].n < MaxCalls
    /\ Goto(w, "year")
    /\ loc' = [loc EXCEPT ![w] = [NoLoc EXCEPT !.y = 2025, !.p = p, !.n = loc[w].n + 1]]
    /\ UNCHANGED <<recFile, clock, ipo_cache>> /\ ConcFrame

\* `if year not in ipo_cache: if not load_year_data(year): return None`
YearCheck(w) ==
    /\ pc[w] = "year"
    /\ LET r == IF loc[w].y \in DOMAIN ipo_cache
                THEN [ok |-> TRUE, cache |-> ipo_cache, read |-> FALSE]
                ELSE load_year_data(ipo_cache, metaFile, loc[w].y)
       IN /\ ipo_cache' = r.cache
          /\ Goto(w, IF r.ok THEN "exists" ELSE "status")
          /\ loc' = [loc EXCEPT ![w].none = ~r.ok]
    /\ UNCHANGED <<recFile, clock>> /\ ConcFrame

\* `if not os.path.exists(full_path): return None`
Exists(w) ==
    /\ pc[w] = "exists"
    /\ Goto(w, IF recFile[loc[w].p].st = "file" THEN "stat" ELSE "status")
    /\ loc' = [loc EXCEPT ![w].none = recFile[loc[w].p].st # "file"]
    /\ UNCHANGED <<recFile, clock, ipo_cache>> /\ ConcFrame

\* `current_mtime = os.path.getmtime(full_path)`, outside of any try.
Stat(w) ==
    /\ pc[w] = "stat"
    /\ Goto(w, IF recFile[loc[w].p].st = "file" THEN "check" ELSE "done")
    /\ loc' = [loc EXCEPT ![w].mtime = recFile[loc[w].p].mtime,
                          ![w].raised = recFile[loc[w].p].st # "file"]
    /\ UNCHANGED <<recFile, clock, ipo_cache>> /\ ConcFrame

\* `if ipo_identifier not in ipo_cache[year]['ipo_data'] or ...['mtime'] < current_mtime:`
\* (KeyError when ipo_cache has been rebound meanwhile).
Check(w) ==
    /\ pc[w] = "check"
    /\ IF loc[w].y \notin DOMAIN ipo_cache
       THEN Goto(w, "done") /\ loc' = [loc EXCEPT ![w].raised = TRUE]
       ELSE IF loc[w].p \notin DOMAIN ipo_cache[loc[w].y].ipo_data
               \/ IsStale(Line(w).mtime, loc[w].mtime)
       THEN Goto(w, "open") /\ loc' = [loc EXCEPT ![w].reloaded = TRUE]
       ELSE Goto(w, "ret") /\ UNCHANGED loc
    /\ UNCHANGED <<recFile, clock, ipo_cache>> /\ ConcFrame

\* `with open(full_path, 'r') as f: ipo_data = json.load(f)` inside the try.
Open(w) ==
    /\ pc[w] = "open"
    /\ IF recFile[loc[w].p].st = "file" /\ recFile[loc[w].p].ok
       THEN Goto(w, "store") /\ loc' = [loc EXCEPT ![w].data = Load(recFile[loc[w].p].tree)]
       ELSE Goto(w, "status") /\ loc' = [loc EXCEPT ![w].none = TRUE]
    /\ UNCHANGED <<recFile, clock, ipo_cache>> /\ ConcFrame

\* `ipo_cache[year]['ipo_data'][ipo_identifier] = {'mtime': current_mtime, 'data': ipo_data}`
\* inside the try (KeyError is caught there).  The object the line held
\* before is no longer the cache's.
Store(w) ==
    /\ pc[w] = "store"
    /\ IF loc[w].y \notin DOMAIN ipo_cache
       THEN /\ Goto(w, "status")
            /\ loc' = [loc EXCEPT ![w].none = TRUE]
            /\ UNCHANGED ipo_cache
       ELSE /\ Goto(w, "ret")
            /\ ipo_cache' = [ipo_cache EXCEPT ![loc[w].y].ipo_data =
                                (loc[w].p :> [mtime |-> loc[w].mtime, data |-> loc[w].data]) @@ @]
            /\ loc' = [v \in DOMAIN loc |->
                          IF v # w /\ loc[v].y = loc[w].y /\ loc[v].p = loc[w].p
                          THEN [loc[v] EXCEPT !.own = FALSE] ELSE loc[v]]
    /\ UNCHANGED <<recFile, clock>> /\ ConcFrame

\* `return ipo_cache[year]['ipo_data'][ipo_identifier]['data']`, outside of
\* the try.
Return(w) ==
    /\ pc[w] = "ret"
    /\ IF HasLine(ipo_cache, loc[w].y, loc[w].p)
       THEN Goto(w, "status") /\ loc' = [loc EXCEPT ![w].got = Line(w).data, ![w].own = TRUE]
       ELSE Goto(w, "done") /\ loc' = [loc EXCEPT ![w].raised = TRUE]
    /\ UNCHANGED <<recFile, clock, ipo_cache>> /\ ConcFrame

\* Back in get_single_ipo_by_slug: `if not ipo_data: abort(500)`, the status,
\* and `ipo_data['status'] = status` on the object that was returned.
Inject(w) ==
    /\ pc[w] = "status"
    /\ Goto(w, "done")
    /\ IF ~loc[w].none /\ loc[w].own /\ ValTruthy(Line(w).data.heap, Line(w).data.root)
          /\ ~DocStatus(Line(w).data, today).raised
       THEN ipo_cache' = SetLine(ipo_cache, loc[w].y, loc[w].p,
                                 SetStatus(Line(w).data, DocStatus(Line(w).data, today).status))
       ELSE UNCHANGED ipo_cache
    /\ UNCHANGED <<recFile, clock, loc>> /\ ConcFrame

\* The request is answered.
Done(w) ==
    /\ pc[w] = "done"
    /\ Goto(w, "idle")
    /\ loc' = [loc EXCEPT ![w].own = FALSE]
    /\ UNCHANGED <<recFile, clock, ipo_cache>> /\ ConcFrame

\* process_meta_json: `with open(json_file_path, 'w', ...) as json_file:`
\* truncates the record file; until json.dump has written all of it, the
\* file holds a prefix of a JSON text.
ProducerOpen(p) ==
    /\ clock < MaxMtime
    /\ recFile[p].st = "file" /\ recFile[p].ok
    /\ clock' = clock + 1
    /\ recFile' = [recFile EXCEPT ![p] = RecBroken(clock + 1)]
    /\ UNCHANGED <<ipo_cache, pc, loc>> /\ ConcFrame

\* json.dump has written the whole text and the file is closed.
ProducerClose(p) ==
    /\ recFile[p].st = "file" /\ ~recFile[p].ok
    /\ \E t \in RecordTexts : recFile' = [recFile EXCEPT ![p] = RecText(recFile[p].mtime, t)]
    /\ UNCHANGED <<clock, ipo_cache, pc, loc>> /\ ConcFrame

\* The record file is deleted from the data directory.
Unlink(p) ==
    /\ recFile[p].st = "file"
    /\ recFile' = [recFile EXCEPT ![p] = RecAbsent]
    /\ UNCHANGED <<clock, ipo_cache, pc, loc>> /\ ConcFrame

\* The refresher thread in clear_and_preload_cache: `ipo_cache = {}`.
RefreshClear ==
    /\ pc[Refresher] = "idle" /\ loc[Refresher].n < MaxRefresh
    /\ Goto(Refresher, "preload")
    /\ ipo_cache' = [y \in {} |-> 0]
    /\ loc' = [v \in DOMAIN loc |->
                  IF v = Refresher THEN [loc[v] EXCEPT !.n = @ + 1]
                  ELSE [loc[v] EXCEPT !.own = FALSE]]
    /\ UNCHANGED <<recFile, clock>> /\ ConcFrame

\* ... and its loop of load_year_data over the year directories.
RefreshLoad ==
    /\ pc[Refresher] = "preload"
    /\ Goto(Refresher, "idle")
    /\ ipo_cache' = Preload([cache |-> ipo_cache, calls |-> <<>>], metaFile,
                            years_to_process(metaFile)).cache
    /\ UNCHANGED <<recFile, clock, loc>> /\ ConcFrame

NextConc ==
    \/ \E w \in Workers, p \in ConcPaths : Begin(w, p)
    \/ \E w \in Workers : YearCheck(w)
    \/ \E w \in Workers : Exists(w)
    \/ \E w \in Workers : Stat(w)
    \/ \E w \in Workers : Check(w)
    \/ \E w \in Workers : Open(w)
    \/ \E w \in Workers : Store(w)
    \/ \E w \in Workers : Return(w)
    \/ \E w \in Workers : Inject(w)
    \/ \E w \in Workers : Done(w)
    \/ \E p \in ConcPaths : ProducerOpen(p)
    \/ \E p \in ConcPaths : ProducerClose(p)
    \/ \E p \in ConcPaths : Unlink(p)
    \/ RefreshClear
    \/ RefreshLoad

SpecConc == InitConc /\ [][NextConc]_vars

(***************************************************************************)
(* The refresher thread of start_cache_refresher, tick by tick, next to    *)
(* the pipeline rewriting indexes and the Redis server going down and up.  *)
(* __main__ starts the thread after its own clear_and_preload_cache has    *)
(* returned.                                                               *)
(***************************************************************************)
\* refresher_task: `while True: time.sleep(...); clear_and_preload_cache()`.
\* Nothing in the loop catches what clear_and_preload_cache raises: the
\* exception leaves refresher_task and the thread ends.
RefresherTick ==
    /\ pc[Refresher] = "idle"
    /\ LET r == clear_and_preload_cache(ipo_cache, redis, redis_client, redisUp, metaFile)
       IN /\ ipo_cache' = r.cache
          /\ redis' = r.store
          /\ calls' = r.calls
          /\ pc' = [pc EXCEPT ![Refresher] = IF r.raised THEN "dead" ELSE "idle"]
    /\ UNCHANGED <<metaFile, recFile, clock, today, redisUp, redis_client, resp, last,
                   loc, steps, arg, outcome, pipe>>

NextRefresh ==
    \/ \E y \in Years : WriteIndex(y)
    \/ RedisFlips
    \/ Expire
    \/ GetAllIpos
    \/ RefresherTick

SpecRefresh == InitConc /\ [][NextRefresh]_vars

(***************************************************************************)
(* The ingestion pipeline on the current year's directory, step by step,   *)
(* next to a handler that calls load_year_data: meta_data.py writes        *)
(* current_meta.json, then parser.py's process_meta_json goes through its  *)
(* entries.                                                                *)
(***************************************************************************)
MaxPipeClock == 5
CurrentYear == 2025
PipeNames == {"Acme", "Beta!"}
ScrapedLists == {<<"Acme", "Beta!">>, <<"Beta!", "Acme">>, <<"Acme">>}

\* re.sub(r'[-\s]+', '_', ...): each run of hyphens and spaces becomes one
\* underscore.
RECURSIVE UnderscoreSeps(_, _, _)
UnderscoreSeps(q, i, out) ==
    IF i > Len(q) THEN out
    ELSE IF IsSepChar(q[i])
         THEN UnderscoreSeps(q, i + 1,
                  IF i > 1 /\ IsSepChar(q[i - 1]) THEN out ELSE Append(out, "_"))
         ELSE UnderscoreSeps(q, i + 1, Append(out, q[i]))

\* json_filename = re.sub(r'[^\w\s-]', '', ipo_name).strip(), then the
\* separators replaced, + '.json'.
json_filename(ipo_name) ==
    Append(UnderscoreSeps(Strip(SelectSeq(ipo_name,
                                          LAMBDA ch : IsWordChar(ch) \/ IsSepChar(ch))),
                          1, <<>>),
           ".json")

\* f"{current_year}/json/{json_filename}" as a string.
JsonPathOf(filename) ==
    CASE filename = <<"A", "c", "m", "e", ".json">> -> "2025/json/Acme.json"
      [] filename = <<"B", "e", "t", "a", ".json">> -> "2025/json/Beta.json"
      [] OTHER -> ""

\* The corpus after a complete run of the pipeline.
InitPipe ==
    /\ metaFile = [y \in Years |->
                      IF y = CurrentYear
                      THEN MetaText(1, <<Entry("Acme", TRUE, PathA), Entry("Beta!", TRUE, PathB)>>)
                      ELSE MetaAbsent("nodir")]
    /\ recFile = [p \in Paths |-> IF p = PathA THEN RecText(1, DocOpen2)
                                  ELSE RecText(1, DocRange)]
    /\ clock = 1
    /\ today = 1
    /\ redis = (ForeignKey :> [img |-> Load(TStr("other")), ttl |-> 0])
    /\ resp = NoResp
    /\ calls = <<>>
    /\ last = [l \in Lines |-> NoLast]
    /\ pc = [w \in Workers \cup {Refresher} |-> "idle"]
    /\ loc = [w \in Workers \cup {Refresher} |-> NoLoc]
    /\ steps = 0
    /\ pipe = [NoPipe EXCEPT !.html = PipeNames]
    /\ ipo_cache = [y \in {} |-> 0]
    /\ redisUp = TRUE
    /\ redis_client = TRUE
    /\ arg = NoArg
    /\ outcome = NoResult

PipeFrame ==
    UNCHANGED <<today, redisUp, redis_client, redis, resp, calls, last, pc, loc, steps,
                arg, outcome>>

\* meta_data.py main(): the entries of extract_ipo_info are {name, url};
\* fetch_and_save_ipo_html adds html_path, None when the fetch failed, and
\* save_meta_data writes the list.  No entry has a json_path.
MetaDataMain ==
    /\ pipe.pc = "idle" /\ clock < MaxPipeClock
    /\ \E names \in ScrapedLists, saved \in SUBSET PipeNames :
           /\ metaFile' = [metaFile EXCEPT ![CurrentYear] =
                              MetaText(clock + 1,
                                       [i \in 1..Len(names) |-> Entry(names[i], FALSE, "")])]
           /\ pipe' = [pipe EXCEPT !.html = saved]
    /\ clock' = clock + 1
    /\ UNCHANGED <<recFile, ipo_cache>> /\ PipeFrame

\* process_meta_json up to its loop: meta_data = json.load(f).
ParserLoad ==
    /\ pipe.pc = "idle"
    /\ metaFile[CurrentYear].st = "file" /\ metaFile[CurrentYear].ok
    /\ pipe' = [pipe EXCEPT !.pc = "loop", !.meta = metaFile[CurrentYear].entries, !.i = 1]
    /\ UNCHANGED <<metaFile, recFile, clock, ipo_cache>> /\ PipeFrame

\* One pass of `for entry in meta_data:` that ends in `continue`: the HTML
\* file is not there (html_path None makes full_html_path the year
\* directory, and open() raises), or parsing or writing raised.
ParserSkip ==
    /\ pipe.pc = "loop" /\ pipe.i <= Len(pipe.meta)
    /\ pipe' = [pipe EXCEPT !.i = @ + 1]
    /\ UNCHANGED <<metaFile, recFile, clock, ipo_cache>> /\ PipeFrame

\* One pass that reaches the end of the loop body: the record file is
\* written, entry['json_path'] set and the whole index written again.
ParserEntry ==
    /\ pipe.pc = "loop" /\ pipe.i <= Len(pipe.meta) /\ clock < MaxPipeClock
    /\ pipe.meta[pipe.i].name \in pipe.html
    /\ LET path == JsonPathOf(json_filename(NameChars(pipe.meta[pipe.i].name)))
           meta == [pipe.meta EXCEPT ![pipe.i] = Entry(@.name, TRUE, path)]
       IN /\ path \in Paths
          /\ \E t \in RecordTexts :
                 recFile' = [recFile EXCEPT ![path] = RecText(clock + 1, t)]
          /\ metaFile' = [metaFile EXCEPT ![CurrentYear] = MetaText(clock + 1, meta)]
          /\ pipe' = [pipe EXCEPT !.meta = meta, !.i = @ + 1]
    /\ clock' = clock + 1
    /\ UNCHANGED ipo_cache /\ PipeFrame

\* The loop has gone through every entry.
ParserEnd ==
    /\ pipe.pc = "loop" /\ pipe.i > Len(pipe.meta)
    /\ pipe' = [pipe EXCEPT !.pc = "idle", !.meta = <<>>, !.i = 0]
    /\ UNCHANGED <<metaFile, recFile, clock, ipo_cache>> /\ PipeFrame

\* A request handler calls load_year_data(year).
LoadYear(y) ==
    /\ ipo_cache' = load_year_data(ipo_cache, metaFile, y).cache
    /\ UNCHANGED <<metaFile, recFile, clock, pipe>> /\ PipeFrame

NextPipe ==
    \/ MetaDataMain
    \/ ParserLoad
    \/ ParserSkip
    \/ ParserEntry
    \/ ParserEnd
    \/ \E y \in Years : LoadYear(y)

SpecPipe == InitPipe /\ [][NextPipe]_vars

(***************************************************************************)
(* The functions of ipo_api.py called on their own: the fields projection  *)
(* of get_single_ipo_by_slug on a document and a fields parameter.         *)
(***************************************************************************)
\* The number of path expressions in a fields parameter.
MaxFields == 2

\* Documents a record file can hold, as json.load returns them.
DocNested == TDict([a |-> TDict([b |-> TNum(1), c |-> TNum(2), d |-> TNum(3)])])
DocItems == TDict([items |-> TList(<<TDict([name |-> TStr("x")])>>)])
DocNoItems == TDict([items |-> TList(<<>>)])
ProjectDocs == {DocNested, DocItems, DocNoItems, DocOpen2}

\* Path expressions of the fields query parameter, segment by segment.
FieldPaths ==
    {<<"a">>, <<"a", "b">>, <<"a", "c">>, <<"a", "b", "c">>, <<"nokey">>,
     <<"items">>, <<"items", "0">>, <<"items", "0", "name">>, <<"items", "1", "name">>,
     <<"items", "-1">>, <<"ipo_details">>, <<"ipo_details", "0", "1">>}
FieldLists == UNION {[1..n -> FieldPaths] : n \in 1..MaxFields}

\* The text of the parameter: segments joined by '.', paths by ','.
RECURSIVE JoinWith(_, _, _)
JoinWith(parts, sep, i) ==
    IF i > Len(parts) THEN <<>>
    ELSE IF i = Len(parts) THEN parts[i]
    ELSE parts[i] \o <<sep>> \o JoinWith(parts, sep, i + 1)
FieldsText(paths) ==
    JoinWith([j \in 1..Len(paths) |->
                 JoinWith([k \in 1..Len(paths[j]) |-> <<paths[j][k]>>], ".", 1)], ",", 1)

ProjectArgs == [fn : {"project"}, doc : ProjectDocs, paths : FieldLists]

\* jsonify(filtered_response) after the reconstruction loop, and ipo_data
\* as the loop leaves it.
ProjectResult(pr) ==
    [done |-> TRUE, raised |-> pr.raised,
     out |-> IF pr.raised \/ Unserializable(pr.filtered) THEN TNull ELSE BodyOf(pr.filtered),
     data |-> IF pr.raised \/ Unserializable(pr.data) THEN TNull ELSE BodyOf(pr.data),
     img |-> pr.data]

CallProject ==
    /\ arg.fn = "project" /\ ~outcome.done
    /\ outcome' = ProjectResult(Project(Load(arg.doc), FieldsText(arg.paths)))
    /\ UNCHANGED <<metaFile, recFile, clock, today, ipo_cache, redisUp, redis_client,
                   redis, resp, calls, last, pc, loc, steps, arg, pipe>>

\* ipo_details as parser.py takes it from the table rows of a page: an
\* 'IPO Date' row or none, a 'Listing Date' row or none, and another row.
\* A row has as many cells as the page gave it.
IpoDateRows ==
    {<<>>, <<Pair("IPO Date", DateJan2)>>, <<Pair("IPO Date", DateRange23)>>,
     <<Pair("IPO Date", DateTBA)>>, <<Pair("IPO Date", "")>>,
     <<TList(<<TStr("IPO Date")>>)>>}
ListingRows ==
    {<<>>, <<Pair("Listing Date", DateJan2)>>, <<Pair("Listing Date", DateTBA)>>}
OtherRows ==
    {<<>>, <<TList(<<TStr("Face Value")>>)>>, <<TList(<<>>)>>}
StatusDetails ==
    {TList(i \o l \o o) : i \in IpoDateRows, l \in ListingRows, o \in OtherRows}
StatusArgs == [fn : {"status"}, details : StatusDetails, day : 1..MaxDay]

\* get_ipo_status(ipo_data["ipo_details"]) with date.today() = arg.day.
StatusResult(img, day) ==
    [done |-> TRUE] @@ get_ipo_status(img.heap, img.root, day)

CallStatus ==
    /\ arg.fn = "status" /\ ~outcome.done
    /\ outcome' = StatusResult(Load(arg.details), arg.day)
    /\ UNCHANGED <<metaFile, recFile, clock, today, ipo_cache, redisUp, redis_client,
                   redis, resp, calls, last, pc, loc, steps, arg, pipe>>

\* GET /api/ipo/years on a data directory with any of its year directories
\* and index files missing, with and without a cached list, with and
\* without an If-None-Match header.
YearLists == {TList(<<>>), TList(<<TNum(2025)>>), TList(<<TNum(2024)>>),
              TList(<<TNum(2025), TNum(2024)>>)}
YearsCorpora == [Years -> {MetaAbsent("nodir"), MetaAbsent("absent"), MetaText(1, IndexOne)}]
YearsStores ==
    {[k \in {} |-> 0]}
    \cup {(<<"available_years">> :> [img |-> Load(l), ttl |-> CACHE_TIMEOUTS.meta_data]) :
              l \in YearLists}
YearsInm == {NoInm} \cup {[given |-> TRUE, tag |-> Fingerprint(l)] : l \in YearLists}
YearsArgs == [fn : {"years"}, mf : YearsCorpora, store : YearsStores, inm : YearsInm]

CallYears ==
    /\ arg.fn = "years" /\ ~outcome.done
    /\ outcome' = [done |-> TRUE,
                   resp |-> get_available_years([y \in {} |-> 0], arg.store, TRUE, TRUE,
                                                arg.mf, arg.inm).resp]
    /\ UNCHANGED <<metaFile, recFile, clock, today, ipo_cache, redisUp, redis_client,
                   redis, resp, calls, last, pc, loc, steps, arg, pipe>>

\* The fingerprint of two bodies, as check_etag_and_return_304 computes it
\* for the first against a header that carries the second's, and as
\* add_cache_headers puts it on a response.
EtagItems ==
    {<<>>, <<[k |-> "a", v |-> TNum(1)], [k |-> "b", v |-> TNum(2)]>>,
     <<[k |-> "b", v |-> TNum(2)], [k |-> "a", v |-> TNum(1)]>>,
     <<[k |-> "a", v |-> TNum(2)], [k |-> "b", v |-> TNum(1)]>>}
EtagBodies ==
    YearLists \cup {PDict(q) : q \in EtagItems}
    \cup {TList(<<PDict(q)>>) : q \in EtagItems}
    \cup {PDict(<<[k |-> "items", v |-> PDict(q)]>>) : q \in EtagItems}
EtagArgs == [fn : {"etag"}, body : EtagBodies, other : EtagBodies]

CallFingerprint ==
    /\ arg.fn = "etag" /\ ~outcome.done
    /\ outcome' = [done |-> TRUE,
                   tag |-> Fingerprint(arg.body),
                   other |-> Fingerprint(arg.other),
                   replay |-> check_etag_and_return_304(
                                  arg.body, [given |-> TRUE, tag |-> Fingerprint(arg.other)]),
                   header |-> add_cache_headers(Response("etag", 200, TNull),
                                                CACHE_TIMEOUTS.meta_data, arg.body)]
    /\ UNCHANGED <<metaFile, recFile, clock, today, ipo_cache, redisUp, redis_client,
                   redis, resp, calls, last, pc, loc, steps, arg, pipe>>

\* The search of get_single_ipo_by_slug for the entry of a slug, on indexes
\* of which several entries, of one year or of two, have the same slug.
IndexTwice == <<Entry("Acme", TRUE, PathA), Entry("acme!", TRUE, PathB)>>
FindCorpora ==
    [Years -> {MetaAbsent("absent"), MetaBroken(1)}
              \cup {MetaText(1, e) : e \in IndexTexts \cup {IndexTwice}}]
FindArgs == [fn : {"find"}, mf : FindCorpora, slug : Slugs]

FindResult(f) == [done |-> TRUE, hit |-> f.hit, cache |-> f.cache]

CallFind ==
    /\ arg.fn = "find" /\ ~outcome.done
    /\ outcome' = FindResult(FindSlug([cache |-> [y \in {} |-> 0], calls |-> <<>>,
                                       hit |-> NotFound],
                                      arg.mf, SortDesc(years_to_process(arg.mf)), 1, arg.slug))
    /\ UNCHANGED <<metaFile, recFile, clock, today, ipo_cache, redisUp, redis_client,
                   redis, resp, calls, last, pc, loc, steps, arg, pipe>>

\* generate_cache_key on two calls: positional arguments and keyword
\* arguments in the order they are passed, values with and without ':'.
KeyValues == {<<"x">>, <<"y">>, <<"x", ":", "y">>, <<"a", ":", "x">>}
KeyPositional == {<<>>} \cup {<<v>> : v \in KeyValues} \cup {<<<<"x">>, <<"y">>>>}
KeyKeywords ==
    {<<>>, <<<<"a", <<"x">>>>>>, <<<<"a", <<"y">>>>>>,
     <<<<"a", <<"x">>>>, <<"b", <<"y">>>>>>, <<<<"b", <<"y">>>>, <<"a", <<"x">>>>>>,
     <<<<"a", <<"x", ":", "b", ":", "y">>>>>>}
KeyArgs == [fn : {"key"}, args : KeyPositional, kwargs : KeyKeywords,
            args2 : KeyPositional, kwargs2 : KeyKeywords]

CallKey ==
    /\ arg.fn = "key" /\ ~outcome.done
    /\ outcome' = [done |-> TRUE,
                   key |-> generate_cache_key(arg.args, arg.kwargs),
                   key2 |-> generate_cache_key(arg.args2, arg.kwargs2)]
    /\ UNCHANGED <<metaFile, recFile, clock, today, ipo_cache, redisUp, redis_client,
                   redis, resp, calls, last, pc, loc, steps, arg, pipe>>

\* clear_and_preload_cache on keyspaces that hold keys of this application,
\* stored through redis_client and through Flask-Caching, and keys of others.
ClearKeys ==
    {ForeignKey, <<"ipo_api_v2:", "all_ipos">>, RawKey(<<"all_ipos">>),
     PrefixedKey(<<"all_ipos">>), PrefixedKey(<<"available_years">>)}
ClearStores ==
    {[key \in K |-> [img |-> Load(TList(<<>>)), ttl |-> CACHE_TIMEOUTS.meta_data]] :
         K \in SUBSET ClearKeys}
ClearArgs == [fn : {"clear"}, store : ClearStores, client : BOOLEAN, up : BOOLEAN]

CallClear ==
    /\ arg.fn = "clear" /\ ~outcome.done
    /\ outcome' = [done |-> TRUE,
                   cleared |-> clear_and_preload_cache(ipo_cache, arg.store, arg.client,
                                                       arg.up, metaFile)]
    /\ UNCHANGED <<metaFile, recFile, clock, today, ipo_cache, redisUp, redis_client,
                   redis, resp, calls, last, pc, loc, steps, arg, pipe>>

\* GET /api/ipo/overview on an empty response cache, for each limit, the
\* record files and the day varied so that the lists have up to three
\* entries; then the same request for another limit on the keyspace the
\* first has left.
MaxLimit == 2
Limits == {NoLimit} \cup {Limit(n) : n \in (0 - 1)..MaxLimit}
OverviewRecords == [Paths -> {RecText(1, DocOpen2), RecText(1, DocRange)}]
OverviewArgs == [fn : {"overview"}, limit : Limits, other : Limits,
                 rf : OverviewRecords, day : 1..MaxDay]

OverviewResult(a, first, second) ==
    [done |-> TRUE,
     store |-> first.store,
     stored |-> get_cached_data(first.store, TRUE, TRUE, OverviewKey(a.limit)),
     again |-> get_cached_data(first.store, TRUE, TRUE, OverviewKey(a.other)),
     resp |-> first.resp,
     resp2 |-> second.resp]

CallOverviewTwice(a, first) ==
    OverviewResult(a, first,
                   get_ipo_overview(first.cache, first.store, TRUE, TRUE, metaFile, a.rf,
                                    a.day, a.other))

CallOverview ==
    /\ arg.fn = "overview" /\ ~outcome.done
    /\ outcome' = CallOverviewTwice(arg, get_ipo_overview([y \in {} |-> 0], [k \in {} |-> 0],
                                                          TRUE, TRUE, metaFile, arg.rf,
                                                          arg.day, arg.limit))
    /\ UNCHANGED <<metaFile, recFile, clock, today, ipo_cache, redisUp, redis_client,
                   redis, resp, calls, last, pc, loc, steps, arg, pipe>>

FnArgs == ProjectArgs \cup StatusArgs \cup YearsArgs \cup EtagArgs \cup FindArgs
          \cup KeyArgs \cup ClearArgs \cup OverviewArgs

InitFn ==
    /\ InitWorld
    /\ ipo_cache = [y \in {} |-> 0]
    /\ redisUp = TRUE
    /\ redis_client = TRUE
    /\ arg \in FnArgs
    /\ outcome = NoResult

NextFn ==
    \/ CallProject
    \/ CallStatus
    \/ CallYears
    \/ CallFingerprint
    \/ CallFind
    \/ CallKey
    \/ CallClear
    \/ CallOverview

SpecFn == InitFn /\ [][NextFn]_vars

(***************************************************************************)
(* Properties.  `calls` holds, for the request served last, every call of  *)
(* load_year_data and get_ipo_detail_data in order: whether the line       *)
(* existed (had) and with which timestamp (stored), whether the file was   *)
(* opened (read), the outcome (ok) and the document returned (ret).  The   *)
(* files do not change while a request is served.                          *)
(***************************************************************************)
Indexed(entries) == [i \in 1..Len(entries) |-> AddSlug(entries[i])]

\* C1: a call that finds its line with a timestamp smaller than the
\* modification time of the (readable) file opens the file and returns,
\* resp. stores, the file's current content; a call that finds its line
\* with a timestamp equal to the file's modification time does not open the
\* file and serves the line as it is.
C1_ReloadOnNewerFile ==
    \A i \in 1..Len(calls) :
        LET k == calls[i]
        IN k.had /\ k.exists =>
              /\ k.stored < k.mtime /\ k.parses =>
                    /\ k.read /\ k.ok
                    /\ k.fn = "detail" => k.ret = k.disk
                    /\ k.fn = "year" => k.index = Indexed(k.entries)
              /\ k.stored = k.mtime =>
                    /\ ~k.read /\ k.ok /\ k.unchanged
                    /\ k.fn = "detail" => k.ret = k.before

\* C1 (witness): a get_ipo_detail_data call found a line older than the file,
\* opened the file and returned a document other than the line's.
C1_Reloaded ==
    \E i \in 1..Len(calls) :
        /\ calls[i].fn = "detail" /\ calls[i].had /\ calls[i].exists /\ calls[i].parses
        /\ calls[i].stored < calls[i].mtime
        /\ calls[i].read /\ calls[i].ret = calls[i].disk
        /\ calls[i].ret # calls[i].before

\* The call before call i of log on the same cache line: an earlier call of
\* the same request, else the last call of the requests before.
Earlier(log, i) ==
    {j \in 1..(i - 1) : log[j].fn = "detail" /\ log[j].ok
                        /\ log[j].y = log[i].y /\ log[j].p = log[i].p}
PreviousReturn(l, log, i) ==
    IF Earlier(log, i) # {}
    THEN LET j == CHOOSE m \in Earlier(log, i) : \A n \in Earlier(log, i) : n <= m
         IN [set |-> TRUE, mtime |-> log[j].mtime, ret |-> log[j].ret]
    ELSE l[<<log[i].y, log[i].p>>]

\* C2: a get_ipo_detail_data call returns the content that the call before
\* it on the same record returned, when the record file's modification time
\* is what it was at that call.
C2_StableWhileUnchanged ==
    [][\A i \in 1..Len(calls') :
          calls'[i].fn = "detail" /\ calls'[i].ok
          /\ PreviousReturn(last, calls', i).set
          /\ PreviousReturn(last, calls', i).mtime = calls'[i].mtime
             => calls'[i].ret = PreviousReturn(last, calls', i).ret]_vars

\* C3: a call that finds its line with a timestamp other than the file's
\* modification time, smaller or larger, opens the file.
C3_MismatchReloads ==
    \A i \in 1..Len(calls) :
        calls[i].had /\ calls[i].exists /\ calls[i].stored # calls[i].mtime
            => calls[i].read

\* C4: a call whose file is missing, or whose reload meets malformed
\* content, reports failure, and a call that reports failure leaves the
\* whole of ipo_cache as it found it.
C4_FailedReloadKeepsCache ==
    \A i \in 1..Len(calls) :
        /\ ~calls[i].exists \/ (calls[i].read /\ ~calls[i].parses) => ~calls[i].ok
        /\ ~calls[i].ok => calls[i].unchanged

\* C4 (witness): a get_ipo_detail_data call found a line older than the file,
\* met malformed content, failed and left ipo_cache as it was.
C4_ReloadFailedOnLine ==
    \E i \in 1..Len(calls) :
        /\ calls[i].fn = "detail" /\ calls[i].had /\ calls[i].exists
        /\ calls[i].stored < calls[i].mtime /\ calls[i].read /\ ~calls[i].parses
        /\ ~calls[i].ok /\ calls[i].unchanged

\* The cache keys of the cached endpoints.
EndpointKeys ==
    {<<"available_years">>, <<"all_ipos">>}
    \cup {<<"year_", YearStr(y), "_ipos">> : y \in Years}
    \cup {DetailsRequest(redis_client, redisUp, metaFile, recFile, today, slug, fields).key :
             slug \in Slugs, fields \in FieldsInputs}

\* C5: once POST /api/cache/clear has answered 200, get_cached_data finds
\* no value under any key of the cached endpoints (until a request stores one
\* again).
C5_NothingSurvivesClear ==
    resp.op = "clear" /\ resp.code = 200 =>
        \A k \in EndpointKeys : ~get_cached_data(redis, redis_client, redisUp, k).hit

\* C6: while the Redis server does not answer, get_cached_data,
\* set_cached_data and clear_and_preload_cache return without raising.
C6_BackendFailureHidden ==
    ~redisUp =>
        /\ \A k \in EndpointKeys :
              /\ ~get_cached_data(redis, redis_client, redisUp, k).raised
              /\ ~set_cached_data(redis, redis_client, redisUp, k, Load(YearsBody(metaFile)),
                                  CACHE_TIMEOUTS.meta_data).raised
        /\ ~clear_and_preload_cache(ipo_cache, redis, redis_client, redisUp, metaFile).raised

\* C9: a details request that found its entry and loaded the document
\* answers 200 with a body that has a status field; one that found no entry
\* answers 404; one whose document did not load answers 500.
C9_DetailsAnswers ==
    resp.op = "details" /\ calls # <<>> =>
        LET k == calls[Len(calls)]
        IN /\ k.fn = "detail" /\ k.ok /\ ValTruthy(k.ret.heap, k.ret.root) =>
                 resp.code = 200 /\ "status" \in DOMAIN resp.body.kv
           /\ k.fn = "detail" /\ ~k.ok => resp.code = 500
           /\ resp.code = 404 => k.fn = "year"

\* C10: add_cache_headers returns normally, whatever the response and the
\* max_age.
C10_HeadersReturn ==
    \A category \in DOMAIN CACHE_TIMEOUTS :
        ~add_cache_headers(resp, CACHE_TIMEOUTS[category], NoEtag.tag).raised

\* C7: a worker's store never replaces a line that holds a newer timestamp
\* than the one the store carries (which is what happens when two workers
\* pass the staleness test on the same line and both reload).
C7_NoOlderOverwrite ==
    [][\A w \in Workers :
          pc[w] = "store" /\ pc'[w] = "ret" /\ HasLine(ipo_cache, loc[w].y, loc[w].p)
             => Line(w).mtime <= loc[w].mtime]_vars

\* C8: the document a get_ipo_detail_data call returns is a text that the
\* record file has held, whole.
C8_ReturnsFileContent ==
    \A w \in Workers :
        pc[w] = "status" /\ ~loc[w].none => BodyOf(loc[w].got) \in RecordTexts

(***************************************************************************)
(* The fields projection.                                                  *)
(***************************************************************************)
\* The value a path addresses in a JSON tree: object keys by name, array
\* elements by index.
RECURSIVE TreeAt(_, _, _)
TreeAt(tr, path, i) ==
    IF i > Len(path) THEN [found |-> TRUE, v |-> tr]
    ELSE IF tr.t = "dict" /\ path[i] \in DOMAIN tr.kv
    THEN TreeAt(tr.kv[path[i]], path, i + 1)
    ELSE IF tr.t = "list" /\ IsDigit(path[i]) /\ IntOf(path[i]) < Len(tr.s)
    THEN TreeAt(tr.s[IntOf(path[i]) + 1], path, i + 1)
    ELSE [found |-> FALSE, v |-> TNull]

IsPrefix(p, q) == Len(p) <= Len(q) /\ SubSeq(q, 1, Len(p)) = p
IndexText(n) == CASE n = 0 -> "0" [] n = 1 -> "1" [] n = 2 -> "2" [] OTHER -> ""
HasIndex(path) == \E i \in 1..Len(path) : IsDigit(path[i])

\* Every key and element of tr lies on a requested path or inside the value
\* of one; the empty objects that pad an array count as no key.
RECURSIVE OnRequested(_, _, _)
OnRequested(tr, prefix, paths) ==
    IF \E j \in 1..Len(paths) : IsPrefix(paths[j], prefix) THEN TRUE
    ELSE /\ prefix = <<>> \/ tr = TDict(EmptyKV)
            \/ \E j \in 1..Len(paths) : IsPrefix(prefix, paths[j])
         /\ tr.t = "dict" =>
               \A k \in DOMAIN tr.kv : OnRequested(tr.kv[k], Append(prefix, k), paths)
         /\ tr.t = "list" =>
               \A n \in 1..Len(tr.s) :
                   OnRequested(tr.s[n], Append(prefix, IndexText(n - 1)), paths)

\* C11: for paths without array indices, the projection holds every
\* requested path with the value the document has there (null where it has
\* none), and no key off the requested paths; a later path leaves what an
\* earlier one projected in place.
C11_ProjectionMergesPaths ==
    /\ arg.fn = "project" /\ outcome.done /\ ~outcome.raised
    /\ \A j \in 1..Len(arg.paths) : ~HasIndex(arg.paths[j])
    => /\ \A j \in 1..Len(arg.paths) :
              TreeAt(outcome.out, arg.paths[j], 1).v = TreeAt(arg.doc, arg.paths[j], 1).v
       /\ OnRequested(outcome.out, <<>>, arg.paths)

\* C12: for one path with an array index, the projection has an array where
\* the document has one and the projected value directly at that index.
C12_IndexMirrorsDocument ==
    /\ arg.fn = "project" /\ outcome.done
    /\ Len(arg.paths) = 1 /\ HasIndex(arg.paths[1])
    => /\ ~outcome.raised
       /\ TreeAt(outcome.out, arg.paths[1], 1).v = TreeAt(arg.doc, arg.paths[1], 1).v
       /\ arg.doc = DocItems /\ arg.paths[1] = <<"items", "0", "name">>
             => outcome.out = DocItems
       /\ arg.doc = DocNoItems /\ arg.paths[1] = <<"items", "0", "name">>
             => outcome.out \in {DocNoItems, TDict([items |-> TList(<<TNull>>)])}

\* C13: the projection never raises, and a path that does not resolve in
\* the document is in the output with the value null.
C13_ProjectionNeverRaises ==
    arg.fn = "project" /\ outcome.done =>
        /\ ~outcome.raised
        /\ \A j \in 1..Len(arg.paths) :
               ~TreeAt(arg.doc, arg.paths[j], 1).found
                  => TreeAt(outcome.out, arg.paths[j], 1) = [found |-> TRUE, v |-> TNull]

(***************************************************************************)
(* get_ipo_status.                                                         *)
(***************************************************************************)
\* The value of the 'IPO Date' pair of a pair list (the last one), if any.
RECURSIVE IpoDateOf(_, _, _)
IpoDateOf(q, i, acc) ==
    IF i > Len(q) THEN acc
    ELSE IF q[i].t = "list" /\ Len(q[i].s) >= 1 /\ q[i].s[1] = TStr("IPO Date")
    THEN IpoDateOf(q, i + 1,
                   [has |-> TRUE, v |-> IF Len(q[i].s) >= 2 THEN q[i].s[2] ELSE TNull])
    ELSE IpoDateOf(q, i + 1, acc)

\* The open and close day an 'IPO Date' value stands for.
OpenClose(v) ==
    CASE v = TStr(DateJan2) -> [ok |-> TRUE, open |-> 2, close |-> 2]
      [] v = TStr(DateRange23) -> [ok |-> TRUE, open |-> 2, close |-> 3]
      [] OTHER -> [ok |-> FALSE, open |-> 0, close |-> 0]

StatusByDate(d, day) ==
    IF ~d.has \/ ~OpenClose(d.v).ok THEN "Unknown"
    ELSE IF day < OpenClose(d.v).open THEN "Upcoming"
    ELSE IF day <= OpenClose(d.v).close THEN "Open"
    ELSE "Closed"

\* C14: get_ipo_status returns, for every pair list and every day, the
\* status that the 'IPO Date' value and the day determine; it never raises
\* and the 'Listing Date' pair has no part in the result.
C14_StatusFromIpoDate ==
    arg.fn = "status" /\ outcome.done =>
        /\ ~outcome.raised
        /\ outcome.status =
              StatusByDate(IpoDateOf(arg.details.s, 1, [has |-> FALSE, v |-> TNull]), arg.day)

(***************************************************************************)
(* Time to live of the cached responses.                                   *)
(***************************************************************************)
\* The cache keys of the endpoints whose responses carry a status.
StatusKeys == EndpointKeys \ {<<"available_years">>}

\* C15: a response that carries a status is never stored for longer than
\* CACHE_TIMEOUTS['status_data'].
C15_StatusTtlBounded ==
    \A k \in StatusKeys :
        \A key \in {RawKey(k), PrefixedKey(k)} \cap DOMAIN redis :
            redis[key].ttl <= CACHE_TIMEOUTS.status_data

(***************************************************************************)
(* Conditional GET.                                                        *)
(***************************************************************************)
\* The body GET /api/ipo/years answers with: the cached list when there is
\* a non-empty one, the list of the data directory otherwise.
CurrentYears(a) ==
    IF <<"available_years">> \in DOMAIN a.store
          /\ Truthy(BodyOf(a.store[<<"available_years">>].img))
    THEN BodyOf(a.store[<<"available_years">>].img)
    ELSE YearsBody(a.mf)

\* C16: GET /api/ipo/years answers 304 without a body when If-None-Match
\* is the fingerprint of the current body, and otherwise 200 with the body
\* and its fingerprint as ETag.
C16_ConditionalGet ==
    arg.fn = "years" /\ outcome.done =>
        IF arg.inm.given /\ arg.inm.tag = Fingerprint(CurrentYears(arg))
        THEN outcome.resp.code = 304 /\ outcome.resp.body = TNull
        ELSE /\ outcome.resp.code = 200
             /\ outcome.resp.body = CurrentYears(arg)
             /\ outcome.resp.has_etag
             /\ outcome.resp.etag = Fingerprint(CurrentYears(arg))

\* A body as a JSON value: objects are their keys and values, in no order.
RECURSIVE JsonValue(_)
JsonValue(x) ==
    CASE x.t = "odict" ->
             TDict([k \in {x.s[i].k : i \in 1..Len(x.s)} |-> JsonValue(ItemOf(x.s, k).v)])
      [] x.t = "list" -> TList([i \in 1..Len(x.s) |-> JsonValue(x.s[i])])
      [] OTHER -> x

\* C17: bodies that are equal as JSON values have the same fingerprint,
\* bodies that differ have different ones, and add_cache_headers puts on
\* the response the fingerprint check_etag_and_return_304 compares with.
C17_FingerprintOfContent ==
    arg.fn = "etag" /\ outcome.done =>
        /\ (JsonValue(arg.body) = JsonValue(arg.other)) = (outcome.tag = outcome.other)
        /\ Truthy(arg.body) => (outcome.replay = (outcome.tag = outcome.other))
        /\ Truthy(arg.body) =>
              ~outcome.header.raised /\ outcome.header.response.etag = outcome.tag

(***************************************************************************)
(* The frame of an index reload.                                           *)
(***************************************************************************)
\* C18: a load_year_data call that reloads a year's index leaves that year
\* without any detail line, and every other year as it was.
C18_ReloadEmptiesDetails ==
    \A i \in 1..Len(calls) :
        calls[i].fn = "year" /\ calls[i].read /\ calls[i].ok =>
            calls[i].holds = {} /\ calls[i].others

\* C18 (witness): a year that held detail lines was reloaded while another
\* year was in the cache.
C18_ReloadedWithLines ==
    \E i \in 1..Len(calls) :
        /\ calls[i].fn = "year" /\ calls[i].read /\ calls[i].ok
        /\ calls[i].held # {} /\ calls[i].holds = {}
        /\ \E z \in DOMAIN ipo_cache : z # calls[i].y

(***************************************************************************)
(* A record file that is not there.                                        *)
(***************************************************************************)
\* C19: a step of get_ipo_detail_data that looks for the record file
\* (exists, getmtime, open) and does not find it raises nothing, makes the
\* call return None, and leaves no line for the record in the cache.
C19_MissingFileFailsCleanly ==
    [][\A w \in Workers :
          /\ pc[w] \in {"exists", "stat", "open"} /\ pc'[w] # pc[w]
          /\ recFile[loc[w].p].st # "file"
          => /\ ~loc'[w].raised /\ loc'[w].none
             /\ ~HasLine(ipo_cache', loc[w].y, loc[w].p)]_vars

(***************************************************************************)
(* Listing endpoints and records that cannot be used.                      *)
(***************************************************************************)
\* C20, for the listing endpoint that neither caches nor sets headers:
\* GET /api/ipo/status/<status_type> answers 200 with a list whatever the
\* records are like (400 when status_type is none of the three).
C20_ListingsNeverAbort ==
    resp.op = "status" =>
        \/ resp.code = 200 /\ resp.body.t = "list"
        \/ resp.code = 400

(***************************************************************************)
(* clear_and_preload_cache.                                                *)
(***************************************************************************)
\* The years whose index file is there and parses.
LoadableYears == {y \in Years : metaFile[y].st = "file" /\ metaFile[y].ok}

\* C21: when clear_and_preload_cache has completed, ipo_cache holds exactly
\* the years whose index loads, each with its index and no detail line.
C21_PreloadLoadsEveryYear ==
    resp.op = "clear" /\ resp.code = 200 /\ calls # <<>> =>
        /\ DOMAIN ipo_cache = LoadableYears
        /\ \A y \in LoadableYears :
               /\ DOMAIN ipo_cache[y].ipo_data = {}
               /\ ipo_cache[y].meta_data = Indexed(metaFile[y].entries)

\* C21 (witness): a clear completed with one year's index unreadable and
\* another year loaded.
C21_ClearedWithBadYear ==
    /\ resp.op = "clear" /\ resp.code = 200 /\ calls # <<>>
    /\ \E y \in Years : metaFile[y].st = "file" /\ ~metaFile[y].ok
    /\ DOMAIN ipo_cache # {}

\* C22: once started, the refresher thread is never ended by a failure
\* inside a tick; it is back in its sleep after every tick.
C22_RefresherNeverStops == pc[Refresher] # "dead"

(***************************************************************************)
(* Bounded staleness.                                                      *)
(***************************************************************************)
\* The entry a row of a list response was built from is in the index that
\* is on disk now.
RowIsCurrent(row) ==
    \E y \in LoadableYears :
        /\ row.kv["year"] = TNum(y)
        /\ \E n \in 1..Len(metaFile[y].entries) :
               row.kv["name"] = TStr(metaFile[y].entries[n].name)

\* C23: a cache clear ends the time in which a response built from replaced
\* files can be served: once clear_and_preload_cache has completed, the
\* list that GET /api/ipo/all finds in the response cache, if it finds
\* one, has only rows of entries that are in the indexes now on disk.
C23_ClearBoundsStaleness ==
    resp.op = "clear" /\ resp.code = 200 /\ calls # <<>> =>
        LET g == get_cached_data(redis, redis_client, redisUp, <<"all_ipos">>)
        IN g.hit => \A i \in 1..Len(BodyOf(g.img).s) : RowIsCurrent(BodyOf(g.img).s[i])

(***************************************************************************)
(* The entry of a slug.                                                    *)
(***************************************************************************)
\* The places of slug in the index of year y on disk.
MatchesIn(mf, y, slug) ==
    IF mf[y].st = "file" /\ mf[y].ok
    THEN {n \in 1..Len(mf[y].entries) : AddSlug(mf[y].entries[n]).slug = slug}
    ELSE {}
MatchYears(mf, slug) == {y \in Years : MatchesIn(mf, y, slug) # {}}
Greatest(S) == CHOOSE a \in S : \A b \in S : b <= a
Least(S) == CHOOSE a \in S : \A b \in S : a <= b

\* C24: the entry the details endpoint uses for a slug is the first entry
\* with that slug, in index order, of the greatest year that has one; no
\* entry is found only when no readable index has one.
C24_FirstMatchOfNewestYear ==
    arg.fn = "find" /\ outcome.done =>
        IF MatchYears(arg.mf, arg.slug) = {} THEN ~outcome.hit.found
        ELSE /\ outcome.hit.found
             /\ outcome.hit.y = Greatest(MatchYears(arg.mf, arg.slug))
             /\ outcome.hit.e =
                    AddSlug(arg.mf[outcome.hit.y].entries[
                                Least(MatchesIn(arg.mf, outcome.hit.y, arg.slug))])

\* C24 (witness): a search has ended on a slug that two entries of the
\* newest year and an entry of the older year have.
C24_FoundAmongSeveral ==
    /\ arg.fn = "find" /\ outcome.done /\ outcome.hit.found
    /\ MatchYears(arg.mf, arg.slug) = Years
    /\ Cardinality(MatchesIn(arg.mf, outcome.hit.y, arg.slug)) > 1

(***************************************************************************)
(* The index while the pipeline runs.                                      *)
(***************************************************************************)
\* C25: every index entry the API has read from a current_meta.json carries
\* a json_path, and the file it names exists.
C25_EntriesNameRecords ==
    \A y \in DOMAIN ipo_cache :
        \A n \in 1..Len(ipo_cache[y].meta_data) :
            /\ ipo_cache[y].meta_data[n].has_json_path
            /\ ipo_cache[y].meta_data[n].json_path \in Paths
            /\ recFile[ipo_cache[y].meta_data[n].json_path].st = "file"

(***************************************************************************)
(* Cache keys.                                                             *)
(***************************************************************************)
\* The keyword arguments of a call as the mapping Python passes.
KwMap(kwargs) == {<<kwargs[i][1], kwargs[i][2]>> : i \in 1..Len(kwargs)}
SameCall == arg.args = arg.args2 /\ KwMap(arg.kwargs) = KwMap(arg.kwargs2)

\* C26: two calls of generate_cache_key give the same key string exactly
\* when they have the same positional arguments and the same keyword
\* arguments, in whatever order these are passed.
C26_KeyIdentifiesCall ==
    arg.fn = "key" /\ outcome.done => (outcome.key = outcome.key2 <=> SameCall)

(***************************************************************************)
(* The namespace of the clear.                                             *)
(***************************************************************************)
\* C27: clear_and_preload_cache leaves every key of the distributed cache
\* whose name does not start with 'ipo_api:' in place with its value.
C27_ClearKeepsOtherKeys ==
    arg.fn = "clear" /\ outcome.done =>
        \A key \in DOMAIN arg.store :
            ~HasPrefix(key) =>
                /\ key \in DOMAIN outcome.cleared.store
                /\ outcome.cleared.store[key] = arg.store[key]

\* C27 (witness): a clear has removed a key of the namespace from a
\* keyspace that also holds a key outside of it.
C27_ClearedNextToOthers ==
    /\ arg.fn = "clear" /\ outcome.done /\ ~outcome.cleared.raised
    /\ \E key \in DOMAIN arg.store : HasPrefix(key) /\ key \notin DOMAIN outcome.cleared.store
    /\ \E key \in DOMAIN arg.store : ~HasPrefix(key)

(***************************************************************************)
(* The overview and its limit.                                             *)
(***************************************************************************)
OverviewLists == {"upcoming_ipos_list", "open_ipos_list", "closed_ipos_list"}
CountOf(list) ==
    CASE list = "upcoming_ipos_list" -> "total_upcoming_ipos_count"
      [] list = "open_ipos_list" -> "total_open_ipos_count"
      [] OTHER -> "total_closed_ipos_count"

\* The overview of the same files and day for a request without limit.
FullOverview ==
    BodyOf(get_cached_data(get_ipo_overview([y \in {} |-> 0], [k \in {} |-> 0], TRUE, TRUE,
                                            metaFile, arg.rf, arg.day, NoLimit).store,
                           TRUE, TRUE, OverviewKey(NoLimit)).img)

\* C29: for every integer limit, the overview that GET /api/ipo/overview
\* builds has at most limit entries in each of its three lists, each list
\* is the beginning of the list without limit, each count is the length of
\* the list without limit, and the overview is not found under the cache
\* key of a request for another limit.
C29_OverviewHonoursLimit ==
    arg.fn = "overview" /\ outcome.done /\ outcome.stored.hit /\ arg.limit.given =>
        /\ \A list \in OverviewLists :
               /\ Len(BodyOf(outcome.stored.img).kv[list].s) <= arg.limit.n
               /\ IsPrefix(BodyOf(outcome.stored.img).kv[list].s, FullOverview.kv[list].s)
               /\ BodyOf(outcome.stored.img).kv[CountOf(list)] =
                      TNum(Len(FullOverview.kv[list].s))
        /\ arg.other # arg.limit => ~outcome.again.hit

(***************************************************************************)
(* Time to live by category.                                               *)
(***************************************************************************)
IndexKeys ==
    {<<"available_years">>, <<"all_ipos">>} \cup {<<"year_", YearStr(y), "_ipos">> : y \in Years}
\* The category of the response stored under an endpoint's key.
CategoryOf(k) == IF k \in IndexKeys THEN "meta_data" ELSE "ipo_details"
ShortestTimeout ==
    CHOOSE t \in {CACHE_TIMEOUTS[c] : c \in DOMAIN CACHE_TIMEOUTS} :
        \A c \in DOMAIN CACHE_TIMEOUTS : t <= CACHE_TIMEOUTS[c]

\* C28: index responses have the longest time to live, record details a
\* strictly shorter one, overview and search responses the shortest that
\* is configured, and every stored response has the time to live of its
\* category.
C28_TtlByCategory ==
    /\ \A c \in DOMAIN CACHE_TIMEOUTS : CACHE_TIMEOUTS[c] <= CACHE_TIMEOUTS.meta_data
    /\ CACHE_TIMEOUTS.ipo_details < CACHE_TIMEOUTS.meta_data
    /\ CACHE_TIMEOUTS.overview = ShortestTimeout
    /\ CACHE_TIMEOUTS.search_results = ShortestTimeout
    /\ \A k \in EndpointKeys :
           \A key \in {RawKey(k), PrefixedKey(k)} \cap DOMAIN redis :
               redis[key].ttl = CACHE_TIMEOUTS[CategoryOf(k)]

(***************************************************************************)
(* Readers next to the refresher.                                          *)
(***************************************************************************)
\* C30: inside get_ipo_detail_data, after the year was found or loaded, the
\* read of ipo_cache[year] at the staleness test and the read of the line
\* at the return never raise, whatever the refresher and the other workers
\* do meanwhile.
C30_ReadsNeverFail ==
    [][\A w \in Workers :
          pc[w] \in {"check", "ret"} /\ pc'[w] # pc[w] => ~loc'[w].raised]_vars

(***************************************************************************)
(* The cached document under the projection.                               *)
(***************************************************************************)
\* C31: after the reconstruction loop of a request with fields, whether it
\* ended or raised, the cached document is the object graph it was before:
\* no key added, no value set, no array grown.
C31_ProjectionLeavesDocument ==
    arg.fn = "project" /\ outcome.done => outcome.img = Canon(Load(arg.doc))

(***************************************************************************)
(* Details responses and earlier requests.                                 *)
(***************************************************************************)
\* What a details request for slug without fields finds in the response
\* cache.
CachedDetails(slug) ==
    get_cached_data(redis, redis_client, redisUp,
                    DetailsRequest(redis_client, redisUp, metaFile, recFile, today, slug,
                                   FieldsNone).key)

\* C32: a details request without fields is answered with a full document
\* and its status, whatever requests came before: the cache entry it reads
\* is never one that a request with a fields parameter has stored, also
\* not one with fields=all.
C32_NoFieldsGetsDocument ==
    \A slug \in Slugs :
        CachedDetails(slug).hit /\ ~Unserializable(CachedDetails(slug).img) =>
            /\ BodyOf(CachedDetails(slug).img).t = "dict"
            /\ "status" \in DOMAIN BodyOf(CachedDetails(slug).img).kv


\* ---------------------------------------------------------------------
\* The request handlers next to a producer that only replaces whole files
\* and never moves a modification time back: every write puts a complete,
\* readable text in place under a later modification time, and no file is
\* truncated, restored from an older copy or removed.
ReplaceIndex(y) == WriteIndex(y) /\ metaFile'[y].ok

ReplaceRecord(p) == WriteRecord(p) /\ recFile'[p].ok

NextMono ==
    \/ \E y \in Years : ReplaceIndex(y)
    \/ \E p \in Paths : ReplaceRecord(p)
    \/ DayPasses
    \/ RedisFlips
    \/ Expire
    \/ GetAvailableYears
    \/ GetAllIpos
    \/ GetIposByYear
    \/ GetIposByStatus
    \/ GetSingleIpoBySlug
    \/ ForceCacheClear

SpecMono == Init /\ [][NextMono]_vars

\* What a cached document holds apart from the 'status' key that the
\* details handler assigns to it.
WithoutStatus(t) ==
    IF t.t = "dict" /\ "status" \in DOMAIN t.kv
    THEN [t EXCEPT !.kv = [k \in DOMAIN t.kv \ {"status"} |-> t.kv[k]]]
    ELSE t

IndexLineTracksFile(y) ==
    /\ ipo_cache[y].meta_mtime <= metaFile[y].mtime
    /\ ipo_cache[y].meta_mtime = metaFile[y].mtime =>
           ipo_cache[y].meta_data = Indexed(metaFile[y].entries)

DetailLineTracksFile(y, p) ==
    /\ ipo_cache[y].ipo_data[p].mtime <= recFile[p].mtime
    /\ ipo_cache[y].ipo_data[p].mtime = recFile[p].mtime =>
           /\ ~Unserializable(ipo_cache[y].ipo_data[p].data)
           /\ WithoutStatus(BodyOf(ipo_cache[y].ipo_data[p].data)) = recFile[p].tree

\* C33: with a producer that only replaces whole files under later
\* modification times, every index line and every detail line of ipo_cache
\* has a stored timestamp at most the modification time of its file, and a
\* line whose stored timestamp equals that modification time holds the
\* content of the file (the slug of an index entry and the status assigned
\* by the details handler apart).
C33_LinesTrackFiles ==
    \A y \in DOMAIN ipo_cache :
        /\ IndexLineTracksFile(y)
        /\ \A p \in DOMAIN ipo_cache[y].ipo_data : DetailLineTracksFile(y, p)

====
